---- MODULE Spec2Model ----
(***************************************************************************)
(* Model of the candidate-to-job personalization core of                   *)
(* AI-agent-email-generator (src/tools/personalization_engine.py).         *)
(*                                                                         *)
(* A Python str is a sequence of one-character strings, so that lower(),   *)
(* strip(), split(), join() and the substring operator `in` are computed   *)
(* as Python computes them.  A Python float that the engine produces is a  *)
(* quotient of small integers; it is kept as a pair <<num, den>> with      *)
(* den > 0 and compared by cross-multiplication.  For the inputs of this   *)
(* module the doubles Python computes compare with 0.1, 0.5, 0.7 and with  *)
(* one another as these quotients do (0.25 * 0.4 is the double 0.1).       *)
(* A dict is a function on the set of its keys; d.get(k, default) is       *)
(* Get(d, k, default) and d[k] on a missing key raises KeyError.           *)
(*                                                                         *)
(* engine is the PersonalizationEngine with the caller's CV, args the      *)
(* arguments as they were passed, result and raised the outcome of the     *)
(* call, and caller_job the job dict of the caller as the call left it.    *)
(* previous is the call and the outcome the caller has kept, if any.       *)
(* calls holds the invocations of generate_personalized_content that run   *)
(* side by side on the engine, each with its position and its locals.      *)
(*                                                                         *)
(* Beside the engine the module models config/personal_info.py             *)
(* (PERSONAL_INFO, the module's dict, and copies, the dicts the caller got *)
(* from get_personal_info), a CVParser of tools/cv_parser.py (parser, and  *)
(* last_parsed, the data of the last parse_cv that returned some) and      *)
(* run_agent.main (pc, the section it is at, and run, what it has seen).   *)
(***************************************************************************)
EXTENDS Integers, Sequences, FiniteSets, TLC

VARIABLES engine, op, args, result, raised, caller_job, previous, calls,
          PERSONAL_INFO, copies, parser, last_parsed, pc, run

\* the state of config/personal_info.py, of a CVParser and of run_agent.main
config_vars == <<PERSONAL_INFO, copies>>
parser_vars == <<parser, last_parsed>>
runner_vars == <<pc, run>>

vars == <<engine, op, args, result, raised, caller_job, previous, calls,
          config_vars, parser_vars, runner_vars>>

----------------------------------------------------------------------------
(* Python str operations *)

UpperCase ==
    <<"A","B","C","D","E","F","G","H","I","J","K","L","M",
      "N","O","P","Q","R","S","T","U","V","W","X","Y","Z">>

LowerCase ==
    <<"a","b","c","d","e","f","g","h","i","j","k","l","m",
      "n","o","p","q","r","s","t","u","v","w","x","y","z">>

Whitespace == {" ", "\t", "\n", "\r"}

LowerOf ==
    [c \in { UpperCase[i] : i \in 1..Len(UpperCase) } |->
        LowerCase[CHOOSE i \in 1..Len(UpperCase) : UpperCase[i] = c]]

lower_char(c) == IF c \in DOMAIN LowerOf THEN LowerOf[c] ELSE c

\* s.lower()
lower(s) == [i \in 1..Len(s) |-> lower_char(s[i])]

\* s.strip()
strip(s) ==
    IF \A i \in 1..Len(s) : s[i] \in Whitespace
    THEN <<>>
    ELSE LET first == CHOOSE i \in 1..Len(s) :
                          /\ s[i] \notin Whitespace
                          /\ \A j \in 1..(i - 1) : s[j] \in Whitespace
             last  == CHOOSE i \in 1..Len(s) :
                          /\ s[i] \notin Whitespace
                          /\ \A j \in (i + 1)..Len(s) : s[j] \in Whitespace
         IN  SubSeq(s, first, last)

\* sub in s
contains(sub, s) ==
    \E i \in 0..(Len(s) - Len(sub)) : SubSeq(s, i + 1, i + Len(sub)) = sub

\* the index of the last character of the word of s that starts at index i
word_end(s, i) ==
    CHOOSE j \in i..Len(s) :
        /\ j = Len(s) \/ s[j + 1] \in Whitespace
        /\ \A k \in (i + 1)..j : s[k] \notin Whitespace

\* set(s.split()): the maximal runs of non-whitespace characters of s
split_set(s) ==
    { SubSeq(s, i, word_end(s, i)) :
        i \in { i \in 1..Len(s) : s[i] \notin Whitespace
                                   /\ (i = 1 \/ s[i - 1] \in Whitespace) } }

RECURSIVE join(_, _)
\* sep.join(parts)
join(sep, parts) ==
    IF parts = <<>> THEN <<>>
    ELSE IF Len(parts) = 1 THEN parts[1]
    ELSE parts[1] \o sep \o join(sep, Tail(parts))

\* d.get(key, default)
Get(d, key, default) == IF key \in DOMAIN d THEN d[key] ELSE default

\* Python truthiness of a str or list
truthy(x) == x /= <<>>

----------------------------------------------------------------------------
(* Floats as quotients <<num, den>>, den > 0 *)

Rat(n, d) == <<n, d>>
RatGt(x, y) == x[1] * y[2] > y[1] * x[2]
RatGe(x, y) == x[1] * y[2] >= y[1] * x[2]
RatEq(x, y) == x[1] * y[2] = y[1] * x[2]
RatAdd(x, y) == <<x[1] * y[2] + y[1] * x[2], x[2] * y[2]>>
RatMul(x, y) == <<x[1] * y[1], x[2] * y[2]>>

----------------------------------------------------------------------------
(* String literals *)

\* "Python"
str_Python == <<"P","y","t","h","o","n">>
\* " python "
str_python_padded == <<" ","p","y","t","h","o","n"," ">>
\* "JS"
str_JS == <<"J","S">>
\* "Docker"
str_Docker == <<"D","o","c","k","e","r">>
\* " "
str_blank == <<" ">>
\* "javascript"
str_javascript == <<"j","a","v","a","s","c","r","i","p","t">>
\* "js"
str_js == <<"j","s">>
\* "python"
str_python == <<"p","y","t","h","o","n">>
\* "py"
str_py == <<"p","y">>
\* "react"
str_react == <<"r","e","a","c","t">>
\* "reactjs"
str_reactjs == <<"r","e","a","c","t","j","s">>
\* "node.js"
str_node_js == <<"n","o","d","e",".","j","s">>
\* "nodejs"
str_nodejs == <<"n","o","d","e","j","s">>
\* "node"
str_node == <<"n","o","d","e">>
\* "aws"
str_aws == <<"a","w","s">>
\* "amazon web services"
str_amazon_web_services ==
    <<"a","m","a","z","o","n"," ","w","e","b"," ","s","e","r","v","i","c","e","s">>
\* "sql"
str_sql == <<"s","q","l">>
\* "mysql"
str_mysql == <<"m","y","s","q","l">>
\* "postgresql"
str_postgresql == <<"p","o","s","t","g","r","e","s","q","l">>
\* "sqlite"
str_sqlite == <<"s","q","l","i","t","e">>
\* "git"
str_git == <<"g","i","t">>
\* "github"
str_github == <<"g","i","t","h","u","b">>
\* "gitlab"
str_gitlab == <<"g","i","t","l","a","b">>
\* "React"
str_React == <<"R","e","a","c","t">>
\* "JavaScript"
str_JavaScript == <<"J","a","v","a","S","c","r","i","p","t">>
\* "AWS"
str_AWS == <<"A","W","S">>
\* "communication skills"
str_communication_skills ==
    <<"c","o","m","m","u","n","i","c","a","t","i","o","n"," ","s","k","i","l","l","s">>
\* "Team Leadership"
str_Team_Leadership == <<"T","e","a","m"," ","L","e","a","d","e","r","s","h","i","p">>
\* "Project Management"
str_Project_Management ==
    <<"P","r","o","j","e","c","t"," ","M","a","n","a","g","e","m","e","n","t">>
\* "Agile"
str_Agile == <<"A","g","i","l","e">>
\* "Scrum"
str_Scrum == <<"S","c","r","u","m">>

\* "Master of Science"
str_Master_of_Science == <<"M","a","s","t","e","r"," ","o","f"," ","S","c","i","e","n","c","e">>

\* "Your Name"
str_Your_Name == <<"Y","o","u","r"," ","N","a","m","e">>
\* "+1 (555) 123-4567"
str_1_555_123_4567 == <<"+","1"," ","(","5","5","5",")"," ","1","2","3","-","4","5","6","7">>
\* "your.email@example.com"
str_your_email_example_com ==
    <<"y","o","u","r",".","e","m","a","i","l","@","e","x","a","m","p","l","e",".","c","o","m">>
\* "linkedin.com/in/yourprofile"
str_linkedin_com_in_yourprofile ==
    <<"l","i","n","k","e","d","i","n",".","c","o","m","/","i","n","/","y","o","u","r","p","r",
      "o","f","i","l","e">>
\* "github.com/yourusername"
str_github_com_yourusername ==
    <<"g","i","t","h","u","b",".","c","o","m","/","y","o","u","r","u","s","e","r","n","a","m",
      "e">>
\* "yourportfolio.com"
str_yourportfolio_com == <<"y","o","u","r","p","o","r","t","f","o","l","i","o",".","c","o","m">>
\* "Experienced software engineer with a passion for building scalable solutions"
str_Experienced_software_engineer_with_a_pas ==
    <<"E","x","p","e","r","i","e","n","c","e","d"," ","s","o","f","t","w","a","r","e"," ","e",
      "n","g","i","n","e","e","r"," ","w","i","t","h"," ","a"," ","p","a","s","s","i","o","n",
      " ","f","o","r"," ","b","u","i","l","d","i","n","g"," ","s","c","a","l","a","b","l","e",
      " ","s","o","l","u","t","i","o","n","s">>
\* "JavaScript/React"
str_JavaScript_React == <<"J","a","v","a","S","c","r","i","p","t","/","R","e","a","c","t">>
\* "AWS/Cloud Computing"
str_AWS_Cloud_Computing ==
    <<"A","W","S","/","C","l","o","u","d"," ","C","o","m","p","u","t","i","n","g">>
\* "Database Design"
str_Database_Design == <<"D","a","t","a","b","a","s","e"," ","D","e","s","i","g","n">>
\* "API Development"
str_API_Development == <<"A","P","I"," ","D","e","v","e","l","o","p","m","e","n","t">>
\* "Agile Methodologies"
str_Agile_Methodologies ==
    <<"A","g","i","l","e"," ","M","e","t","h","o","d","o","l","o","g","i","e","s">>
\* "Problem Solving"
str_Problem_Solving == <<"P","r","o","b","l","e","m"," ","S","o","l","v","i","n","g">>
\* "building scalable web applications and cloud-based solutions"
str_building_scalable_web_applications_and_c ==
    <<"b","u","i","l","d","i","n","g"," ","s","c","a","l","a","b","l","e"," ","w","e","b"," ",
      "a","p","p","l","i","c","a","t","i","o","n","s"," ","a","n","d"," ","c","l","o","u","d",
      "-","b","a","s","e","d"," ","s","o","l","u","t","i","o","n","s">>
\* "5+ years"
str_5_years == <<"5","+"," ","y","e","a","r","s">>
\* "Senior Software Engineer"
str_Senior_Software_Engineer ==
    <<"S","e","n","i","o","r"," ","S","o","f","t","w","a","r","e"," ","E","n","g","i","n","e",
      "e","r">>
\* "Bachelor's in Computer Science"
str_Bachelor_s_in_Computer_Science ==
    <<"B","a","c","h","e","l","o","r","'","s"," ","i","n"," ","C","o","m","p","u","t","e","r",
      " ","S","c","i","e","n","c","e">>
\* "AWS Certified Developer"
str_AWS_Certified_Developer ==
    <<"A","W","S"," ","C","e","r","t","i","f","i","e","d"," ","D","e","v","e","l","o","p","e",
      "r">>
\* "Google Cloud Professional Developer"
str_Google_Cloud_Professional_Developer ==
    <<"G","o","o","g","l","e"," ","C","l","o","u","d"," ","P","r","o","f","e","s","s","i","o",
      "n","a","l"," ","D","e","v","e","l","o","p","e","r">>
\* "Led development of microservices architecture serving 100K+ users"
str_Led_development_of_microservices_archite ==
    <<"L","e","d"," ","d","e","v","e","l","o","p","m","e","n","t"," ","o","f"," ","m","i","c",
      "r","o","s","e","r","v","i","c","e","s"," ","a","r","c","h","i","t","e","c","t","u","r",
      "e"," ","s","e","r","v","i","n","g"," ","1","0","0","K","+"," ","u","s","e","r","s">>
\* "Implemented CI/CD pipeline reducing deployment time by 60%"
str_Implemented_CI_CD_pipeline_reducing_depl ==
    <<"I","m","p","l","e","m","e","n","t","e","d"," ","C","I","/","C","D"," ","p","i","p","e",
      "l","i","n","e"," ","r","e","d","u","c","i","n","g"," ","d","e","p","l","o","y","m","e",
      "n","t"," ","t","i","m","e"," ","b","y"," ","6","0","%">>
\* "Designed and built RESTful APIs for mobile applications"
str_Designed_and_built_RESTful_APIs_for_mobi ==
    <<"D","e","s","i","g","n","e","d"," ","a","n","d"," ","b","u","i","l","t"," ","R","E","S",
      "T","f","u","l"," ","A","P","I","s"," ","f","o","r"," ","m","o","b","i","l","e"," ","a",
      "p","p","l","i","c","a","t","i","o","n","s">>
\* "technology and software development"
str_technology_and_software_development ==
    <<"t","e","c","h","n","o","l","o","g","y"," ","a","n","d"," ","s","o","f","t","w","a","r",
      "e"," ","d","e","v","e","l","o","p","m","e","n","t">>
\* "Continue growing as a technical leader while contributing to innovative projects"
str_Continue_growing_as_a_technical_leader_w ==
    <<"C","o","n","t","i","n","u","e"," ","g","r","o","w","i","n","g"," ","a","s"," ","a"," ",
      "t","e","c","h","n","i","c","a","l"," ","l","e","a","d","e","r"," ","w","h","i","l","e",
      " ","c","o","n","t","r","i","b","u","t","i","n","g"," ","t","o"," ","i","n","n","o","v",
      "a","t","i","v","e"," ","p","r","o","j","e","c","t","s">>
\* "CV"
str_CV == <<"C","V">>

\* ".pdf"
str_ext_pdf == <<".","p","d","f">>
\* ".docx"
str_ext_docx == <<".","d","o","c","x">>
\* ".doc"
str_ext_doc == <<".","d","o","c">>
\* ".txt"
str_ext_txt == <<".","t","x","t">>
\* "No CV data available"
str_No_CV_data_available ==
    <<"N","o"," ","C","V"," ","d","a","t","a"," ","a","v","a","i","l","a","b","l","e">>
\* "Name: "
str_summary_Name == <<"N","a","m","e",":"," ">>
\* "Experience: "
str_summary_Experience == <<"E","x","p","e","r","i","e","n","c","e",":"," ">>
\* " positions"
str_summary_positions == <<" ","p","o","s","i","t","i","o","n","s">>
\* "Skills: "
str_summary_Skills == <<"S","k","i","l","l","s",":"," ">>
\* "Education: "
str_summary_Education == <<"E","d","u","c","a","t","i","o","n",":"," ">>
\* " degrees"
str_summary_degrees == <<" ","d","e","g","r","e","e","s">>
\* " | "
str_bar == <<" ","|"," ">>
\* "/"
str_slash == <<"/">>
\* "notes.md"
str_notes_md == <<"n","o","t","e","s",".","m","d">>
\* "resume.docx"
str_resume_docx == <<"r","e","s","u","m","e",".","d","o","c","x">>
\* "resume.pdf"
str_resume_pdf == <<"r","e","s","u","m","e",".","p","d","f">>
\* "Resume.PDF"
str_Resume_PDF == <<"R","e","s","u","m","e",".","P","D","F">>
\* "Bachelor"
str_Bachelor == <<"B","a","c","h","e","l","o","r">>
\* "\n"
str_newline == <<"\n">>

\* "deepseek-r1:1.5b"
str_deepseek_r1_1_5b == <<"d","e","e","p","s","e","e","k","-","r","1",":","1",".","5","b">>
\* "llama3"
str_llama3 == <<"l","l","a","m","a","3">>

\* " Python "
str_Python_padded == <<" ","P","y","t","h","o","n"," ">>
\* "Software Engineer"
str_Software_Engineer == <<"S","o","f","t","w","a","r","e"," ","E","n","g","i","n","e","e","r">>
\* "Senior Engineer"
str_Senior_Engineer == <<"S","e","n","i","o","r"," ","E","n","g","i","n","e","e","r">>
\* "Senior Engineer Lead"
str_Senior_Engineer_Lead ==
    <<"S","e","n","i","o","r"," ","E","n","g","i","n","e","e","r"," ","L","e","a","d">>
\* "Developed web applications using Python, React, and AWS"
str_sample_description ==
    <<"D","e","v","e","l","o","p","e","d"," ","w","e","b"," ","a","p","p","l","i","c","a","t",
      "i","o","n","s"," ","u","s","i","n","g"," ","P","y","t","h","o","n",","," ","R","e","a",
      "c","t",","," ","a","n","d"," ","A","W","S">>
\* "TechCorp"
str_TechCorp == <<"T","e","c","h","C","o","r","p">>
\* "2020-2023"
str_period_2020_2023 == <<"2","0","2","0","-","2","0","2","3">>
\* "Innovation Inc"
str_Innovation_Inc == <<"I","n","n","o","v","a","t","i","o","n"," ","I","n","c">>
\* "technology"
str_technology == <<"t","e","c","h","n","o","l","o","g","y">>
\* "John Doe"
str_John_Doe == <<"J","o","h","n"," ","D","o","e">>
\* "john@example.com"
str_john_email == <<"j","o","h","n","@","e","x","a","m","p","l","e",".","c","o","m">>
\* "+1234567890"
str_john_phone == <<"+","1","2","3","4","5","6","7","8","9","0">>
\* "Bachelor of Science"
str_Bachelor_of_Science ==
    <<"B","a","c","h","e","l","o","r"," ","o","f"," ","S","c","i","e","n","c","e">>
\* "University of Technology"
str_University_of_Technology ==
    <<"U","n","i","v","e","r","s","i","t","y"," ","o","f"," ","T","e","c","h","n","o","l","o",
      "g","y">>
\* "2020"
str_2020 == <<"2","0","2","0">>
\* "degree"
str_degree == <<"d","e","g","r","e","e">>
\* ", "
str_comma_space == <<","," ">>
\* " "
str_space == <<" ">>
\* "."
str_period == <<".">>
\* "communication"
str_communication == <<"c","o","m","m","u","n","i","c","a","t","i","o","n">>
\* "leadership"
str_leadership == <<"l","e","a","d","e","r","s","h","i","p">>
\* "management"
str_management == <<"m","a","n","a","g","e","m","e","n","t">>
\* "agile"
str_agile == <<"a","g","i","l","e">>
\* "scrum"
str_scrum == <<"s","c","r","u","m">>
\* "I have strong experience in "
str_tp_skills_prefix ==
    <<"I"," ","h","a","v","e"," ","s","t","r","o","n","g"," ","e","x","p","e","r","i","e","n",
      "c","e"," ","i","n"," ">>
\* " which directly align with your requirements."
str_tp_skills_suffix ==
    <<" ","w","h","i","c","h"," ","d","i","r","e","c","t","l","y"," ","a","l","i","g","n"," ",
      "w","i","t","h"," ","y","o","u","r"," ","r","e","q","u","i","r","e","m","e","n","t","s",
      ".">>
\* "In my role as "
str_tp_role_prefix == <<"I","n"," ","m","y"," ","r","o","l","e"," ","a","s"," ">>
\* ", I gained valuable experience that would benefit your team."
str_tp_role_suffix ==
    <<","," ","I"," ","g","a","i","n","e","d"," ","v","a","l","u","a","b","l","e"," ","e","x",
      "p","e","r","i","e","n","c","e"," ","t","h","a","t"," ","w","o","u","l","d"," ","b","e",
      "n","e","f","i","t"," ","y","o","u","r"," ","t","e","a","m",".">>
\* "I'm excited about the opportunity to contribute to "
str_tp_company_prefix ==
    <<"I","'","m"," ","e","x","c","i","t","e","d"," ","a","b","o","u","t"," ","t","h","e"," ",
      "o","p","p","o","r","t","u","n","i","t","y"," ","t","o"," ","c","o","n","t","r","i","b",
      "u","t","e"," ","t","o"," ">>
\* "'s innovative projects and growth."
str_tp_company_suffix ==
    <<"'","s"," ","i","n","n","o","v","a","t","i","v","e"," ","p","r","o","j","e","c","t","s",
      " ","a","n","d"," ","g","r","o","w","t","h",".">>
\* "I'm passionate about "
str_tp_industry_prefix ==
    <<"I","'","m"," ","p","a","s","s","i","o","n","a","t","e"," ","a","b","o","u","t"," ">>
\* " and always eager to learn new technologies and approaches."
str_tp_industry_suffix ==
    <<" ","a","n","d"," ","a","l","w","a","y","s"," ","e","a","g","e","r"," ","t","o"," ","l",
      "e","a","r","n"," ","n","e","w"," ","t","e","c","h","n","o","l","o","g","i","e","s"," ",
      "a","n","d"," ","a","p","p","r","o","a","c","h","e","s",".">>
\* "Strong technical skills alignment"
str_strength_alignment ==
    <<"S","t","r","o","n","g"," ","t","e","c","h","n","i","c","a","l"," ","s","k","i","l","l",
      "s"," ","a","l","i","g","n","m","e","n","t">>
\* "Extensive relevant experience"
str_strength_experience ==
    <<"E","x","t","e","n","s","i","v","e"," ","r","e","l","e","v","a","n","t"," ","e","x","p",
      "e","r","i","e","n","c","e">>
\* "Proven track record"
str_strength_track_record ==
    <<"P","r","o","v","e","n"," ","t","r","a","c","k"," ","r","e","c","o","r","d">>
\* "Strong educational background"
str_strength_education ==
    <<"S","t","r","o","n","g"," ","e","d","u","c","a","t","i","o","n","a","l"," ","b","a","c",
      "k","g","r","o","u","n","d">>
\* "Communication and collaboration skills"
str_emphasis_communication ==
    <<"C","o","m","m","u","n","i","c","a","t","i","o","n"," ","a","n","d"," ","c","o","l","l",
      "a","b","o","r","a","t","i","o","n"," ","s","k","i","l","l","s">>
\* "Leadership and project management experience"
str_emphasis_leadership ==
    <<"L","e","a","d","e","r","s","h","i","p"," ","a","n","d"," ","p","r","o","j","e","c","t",
      " ","m","a","n","a","g","e","m","e","n","t"," ","e","x","p","e","r","i","e","n","c","e">>
\* "Agile methodology experience"
str_emphasis_agile ==
    <<"A","g","i","l","e"," ","m","e","t","h","o","d","o","l","o","g","y"," ","e","x","p","e",
      "r","i","e","n","c","e">>
\* "I am "
str_summary_name_prefix == <<"I"," ","a","m"," ">>
\* "a software engineer with "
str_summary_exp_prefix ==
    <<"a"," ","s","o","f","t","w","a","r","e"," ","e","n","g","i","n","e","e","r"," ","w","i",
      "t","h"," ">>
\* " years of experience"
str_summary_exp_suffix ==
    <<" ","y","e","a","r","s"," ","o","f"," ","e","x","p","e","r","i","e","n","c","e">>
\* "specializing in "
str_summary_skills_prefix == <<"s","p","e","c","i","a","l","i","z","i","n","g"," ","i","n"," ">>
\* "with a "
str_summary_degree_prefix == <<"w","i","t","h"," ","a"," ">>

----------------------------------------------------------------------------
(* PersonalizationEngine: construction and the skill matcher *)

\* PersonalizationEngine.__init__
PersonalizationEngine(cv_data) ==
    [cv_data       |-> cv_data,
     personal_info |-> Get(cv_data, "personal_info", <<>>),
     experience    |-> Get(cv_data, "experience", <<>>),
     skills        |-> Get(cv_data, "skills", <<>>),
     education     |-> Get(cv_data, "education", <<>>)]

\* the abbreviation table of _are_abbreviations, in dict order: <<full, abbrevs>>
abbreviations ==
    << <<str_javascript, <<str_js>>>>,
       <<str_python, <<str_py>>>>,
       <<str_react, <<str_reactjs>>>>,
       <<str_node_js, <<str_nodejs, str_node>>>>,
       <<str_aws, <<str_amazon_web_services>>>>,
       <<str_sql, <<str_mysql, str_postgresql, str_sqlite>>>>,
       <<str_git, <<str_github, str_gitlab>>>> >>

\* x in lst, for a Python list
in_list(x, lst) == \E i \in 1..Len(lst) : lst[i] = x

\* a slip of _are_abbreviations: only the (full, abbreviation) argument order
are_abbreviations_one_way(skill1, skill2) ==
    LET skill1_lower == lower(skill1)
        skill2_lower == lower(skill2)
    IN  \E k \in 1..Len(abbreviations) :
            skill1_lower = abbreviations[k][1] /\ in_list(skill2_lower, abbreviations[k][2])

\* PersonalizationEngine._are_abbreviations
are_abbreviations(skill1, skill2) ==
    LET skill1_lower == lower(skill1)
        skill2_lower == lower(skill2)
    IN  \E k \in 1..Len(abbreviations) :
            \/ skill1_lower = abbreviations[k][1] /\ in_list(skill2_lower, abbreviations[k][2])
            \/ skill2_lower = abbreviations[k][1] /\ in_list(skill1_lower, abbreviations[k][2])

\* PersonalizationEngine._calculate_similarity
calculate_similarity(skill1, skill2) ==
    IF skill1 = skill2 THEN Rat(10, 10)
    ELSE IF contains(skill1, skill2) \/ contains(skill2, skill1) THEN Rat(8, 10)
    ELSE IF are_abbreviations(skill1, skill2) THEN Rat(9, 10)
    ELSE Rat(0, 10)

\* a slip of the normalisation: the case is kept
normalize_keep_case(skill) == strip(skill)

\* skill.lower().strip(), applied to both lists by analyze_skills_match
normalize(skill) == strip(lower(skill))

\* a slip of the inner loop: the similarity lookup is left out
skills_match_substring_only(job_skill, cv_skill) ==
    \/ contains(job_skill, cv_skill)
    \/ contains(cv_skill, job_skill)

\* a slip of the inner loop: a CV skill that normalizes to "" is passed over
skills_match_nonblank(job_skill, cv_skill) ==
    /\ cv_skill /= <<>>
    /\ \/ contains(job_skill, cv_skill)
       \/ contains(cv_skill, job_skill)
       \/ RatGt(calculate_similarity(job_skill, cv_skill), Rat(7, 10))

\* the test of the inner loop of analyze_skills_match
skills_match(job_skill, cv_skill) ==
    \/ contains(job_skill, cv_skill)
    \/ contains(cv_skill, job_skill)
    \/ RatGt(calculate_similarity(job_skill, cv_skill), Rat(7, 10))

\* a slip of the early return: an empty requirement list counts as fully met
zero_result_vacuous(self, job_requirements) ==
    [match_score    |-> IF job_requirements = <<>> THEN Rat(1, 1) ELSE Rat(0, 1),
     matched_skills |-> <<>>,
     missing_skills |-> <<>>]

\* the value analyze_skills_match returns when either list is empty
zero_result(self, job_requirements) ==
    [match_score    |-> Rat(0, 1),
     matched_skills |-> <<>>,
     missing_skills |-> <<>>]

\* a slip of the inner loop: it gives up after the first CV skill
matched_by_first(job_skill, normalized_cv_skills) ==
    /\ normalized_cv_skills /= <<>>
    /\ skills_match(job_skill, normalized_cv_skills[1])

\* the inner loop of analyze_skills_match: some CV skill matches job_skill
matched_by_any(job_skill, normalized_cv_skills) ==
    \E i \in 1..Len(normalized_cv_skills) : skills_match(job_skill, normalized_cv_skills[i])

\* the outer loop of analyze_skills_match and the result it builds
match_result(normalized_job_skills, normalized_cv_skills) ==
    LET matched(job_skill) == matched_by_any(job_skill, normalized_cv_skills)
        missing(job_skill) == ~matched_by_any(job_skill, normalized_cv_skills)
    IN  [matched_skills |-> SelectSeq(normalized_job_skills, matched),
         missing_skills |-> SelectSeq(normalized_job_skills, missing)]

\* the dict analyze_skills_match returns after its loops
full_result(normalized_job_skills, lists) ==
    [match_score    |-> IF truthy(normalized_job_skills)
                        THEN Rat(Len(lists.matched_skills), Len(normalized_job_skills))
                        ELSE Rat(0, 1),
     matched_skills |-> lists.matched_skills,
     missing_skills |-> lists.missing_skills,
     total_required |-> Len(normalized_job_skills),
     total_matched  |-> Len(lists.matched_skills)]

\* [normalize(skill) for skill in skills]
normalize_all(skills) == [i \in 1..Len(skills) |-> normalize(skills[i])]

\* the loops of analyze_skills_match on the normalised lists
analyze_normalized(normalized_job_skills, normalized_cv_skills) ==
    full_result(normalized_job_skills,
                match_result(normalized_job_skills, normalized_cv_skills))

\* PersonalizationEngine.analyze_skills_match
analyze_skills_match(self, job_requirements) ==
    IF ~truthy(job_requirements) \/ ~truthy(self.skills)
    THEN zero_result(self, job_requirements)
    ELSE analyze_normalized(normalize_all(job_requirements), normalize_all(self.skills))

----------------------------------------------------------------------------
(* The experience relevance ranker *)

\* the number of entries find_relevant_experience returns at most
TopK == 3

\* a slip of the quotient: the common words over the words of the job title
jaccard_over_job_words(job_words, exp_words) ==
    IF job_words = {} \/ exp_words = {} THEN Rat(0, 1)
    ELSE Rat(Cardinality(job_words \cap exp_words), Cardinality(job_words))

\* intersection size / union size of two word sets, 0.0 when either is empty
jaccard(job_words, exp_words) ==
    IF job_words = {} \/ exp_words = {} THEN Rat(0, 1)
    ELSE IF job_words \cup exp_words /= {}
         THEN Rat(Cardinality(job_words \cap exp_words), Cardinality(job_words \cup exp_words))
         ELSE Rat(0, 1)

\* PersonalizationEngine._calculate_title_similarity
calculate_title_similarity(job_title, exp_title) ==
    jaccard(split_set(lower(job_title)), split_set(lower(exp_title)))

\* the loop of _count_skills_in_text
count_in_lowered(skills, text_lower) ==
    Cardinality({ i \in 1..Len(skills) : contains(lower(skills[i]), text_lower) })

\* PersonalizationEngine._count_skills_in_text
count_skills_in_text(skills, text) ==
    IF ~truthy(text) THEN 0 ELSE count_in_lowered(skills, lower(text))

\* the relevance_score find_relevant_experience computes for one entry
relevance_score_of(exp, job_title, required_skills) ==
    LET title_part ==
            IF truthy(job_title) /\ truthy(Get(exp, "title", <<>>))
            THEN RatMul(calculate_title_similarity(job_title, exp["title"]), Rat(4, 10))
            ELSE Rat(0, 1)
        skills_part ==
            IF truthy(required_skills) /\ truthy(Get(exp, "description", <<>>))
            THEN RatMul(Rat(count_skills_in_text(required_skills, exp["description"]),
                            Len(required_skills)),
                        Rat(6, 10))
            ELSE Rat(0, 1)
    IN  RatAdd(title_part, skills_part)

\* a slip of the threshold: an entry scoring exactly 0.1 is kept
is_relevant_inclusive(relevance_score) == RatGe(relevance_score, Rat(1, 10))

\* relevance_score > 0.1
is_relevant(relevance_score) == RatGt(relevance_score, Rat(1, 10))

\* exp.copy() with exp_copy['relevance_score'] = relevance_score
with_relevance_score(exp, relevance_score) ==
    [k \in DOMAIN exp \cup {"relevance_score"} |->
        IF k = "relevance_score" THEN relevance_score ELSE exp[k]]

\* the key of the sort: x.get('relevance_score', 0)
sort_key(x) == Get(x, "relevance_score", Rat(0, 1))

\* a slip of the sort: x goes before the entries whose key equals its own, so
\* that equal keys come out in reverse order
insert_before_equal(front, x) ==
    LET k == Cardinality({ i \in 1..Len(front) : RatGt(sort_key(front[i]), sort_key(x)) })
    IN  SubSeq(front, 1, k) \o <<x>> \o SubSeq(front, k + 1, Len(front))

\* x placed after the entries of the sorted list front whose key is >= its own
insert_after_equal(front, x) ==
    LET k == Cardinality({ i \in 1..Len(front) : RatGe(sort_key(front[i]), sort_key(x)) })
    IN  SubSeq(front, 1, k) \o <<x>> \o SubSeq(front, k + 1, Len(front))

RECURSIVE sort_descending(_)
\* list.sort(key=..., reverse=True): descending, equal keys keep their order
sort_descending(lst) ==
    IF lst = <<>> THEN <<>>
    ELSE insert_after_equal(sort_descending(SubSeq(lst, 1, Len(lst) - 1)), lst[Len(lst)])

\* a slip of the slice: the whole sorted list is returned
top_entries_all(lst) == lst

\* relevant_experience[:3]
top_entries(lst) == SubSeq(lst, 1, IF Len(lst) < TopK THEN Len(lst) ELSE TopK)

\* the entries of scored whose relevance_score passes the threshold, in order
keep_relevant(scored) ==
    LET keep(x) == is_relevant(x["relevance_score"])
    IN  SelectSeq(scored, keep)

\* the loop of find_relevant_experience: the kept entries, each with its score
scored_relevant(self, job_title, required_skills) ==
    keep_relevant([i \in 1..Len(self.experience) |->
                      with_relevance_score(self.experience[i],
                          relevance_score_of(self.experience[i], job_title, required_skills))])

\* PersonalizationEngine.find_relevant_experience
find_relevant_experience(self, job_title, required_skills) ==
    IF ~truthy(self.experience) THEN <<>>
    ELSE top_entries(sort_descending(scored_relevant(self, job_title, required_skills)))

\* a slip of the loop: the score is stored in the entry itself, not in a copy
experience_after_ranking_in_place(self, job_title, required_skills) ==
    [i \in 1..Len(self.experience) |->
        IF is_relevant(relevance_score_of(self.experience[i], job_title, required_skills))
        THEN with_relevance_score(self.experience[i],
                 relevance_score_of(self.experience[i], job_title, required_skills))
        ELSE self.experience[i]]

\* the caller's work history after find_relevant_experience: the loop writes
\* relevance_score to exp.copy() only, so every entry is as it was
experience_after_ranking(self, job_title, required_skills) == self.experience

\* the engine with its work history replaced; self.experience is the list
\* object of cv_data['experience'] when the CV has that key
with_experience(self, experience) ==
    [self EXCEPT !.experience = experience,
                 !.cv_data = IF "experience" \in DOMAIN @
                             THEN [@ EXCEPT !.experience = experience]
                             ELSE @]

\* the engine after find_relevant_experience
engine_after_ranking(self, job_title, required_skills) ==
    with_experience(self, experience_after_ranking(self, job_title, required_skills))

----------------------------------------------------------------------------
(* The personalization synthesizer and the candidate summary *)

\* lst[:n]
prefix(lst, n) == SubSeq(lst, 1, IF Len(lst) < n THEN Len(lst) ELSE n)

\* the keys a function reads with d[key]; a missing one raises KeyError
has_keys(d, keys) == keys \subseteq DOMAIN d

\* a slip of _generate_talking_points: the skills point asks for more than
\* three quarters matched
generate_talking_points_strict(skills_analysis, relevant_experience, job_analysis) ==
    LET skills_point ==
            IF RatGt(skills_analysis["match_score"], Rat(75, 100))
            THEN << str_tp_skills_prefix
                    \o join(str_comma_space, prefix(skills_analysis["matched_skills"], 3))
                    \o str_tp_skills_suffix >>
            ELSE <<>>
        experience_point ==
            IF truthy(relevant_experience)
            THEN << str_tp_role_prefix
                    \o Get(relevant_experience[1], "title", str_Software_Engineer)
                    \o str_tp_role_suffix >>
            ELSE <<>>
        company_name == Get(job_analysis, "company", <<>>)
        company_point ==
            IF truthy(company_name)
            THEN << str_tp_company_prefix \o company_name \o str_tp_company_suffix >>
            ELSE <<>>
        industry == Get(job_analysis, "industry", str_technology)
        industry_point == << str_tp_industry_prefix \o industry \o str_tp_industry_suffix >>
    IN  skills_point \o experience_point \o company_point \o industry_point

\* a slip of _generate_talking_points: every matched skill is named
generate_talking_points_all_skills(skills_analysis, relevant_experience, job_analysis) ==
    LET skills_point ==
            IF RatGt(skills_analysis["match_score"], Rat(5, 10))
            THEN << str_tp_skills_prefix
                    \o join(str_comma_space, skills_analysis["matched_skills"])
                    \o str_tp_skills_suffix >>
            ELSE <<>>
        experience_point ==
            IF truthy(relevant_experience)
            THEN << str_tp_role_prefix
                    \o Get(relevant_experience[1], "title", str_Software_Engineer)
                    \o str_tp_role_suffix >>
            ELSE <<>>
        company_name == Get(job_analysis, "company", <<>>)
        company_point ==
            IF truthy(company_name)
            THEN << str_tp_company_prefix \o company_name \o str_tp_company_suffix >>
            ELSE <<>>
        industry == Get(job_analysis, "industry", str_technology)
        industry_point == << str_tp_industry_prefix \o industry \o str_tp_industry_suffix >>
    IN  skills_point \o experience_point \o company_point \o industry_point

\* PersonalizationEngine._generate_talking_points
generate_talking_points(skills_analysis, relevant_experience, job_analysis) ==
    LET skills_point ==
            IF RatGt(skills_analysis["match_score"], Rat(5, 10))
            THEN << str_tp_skills_prefix
                    \o join(str_comma_space, prefix(skills_analysis["matched_skills"], 3))
                    \o str_tp_skills_suffix >>
            ELSE <<>>
        experience_point ==
            IF truthy(relevant_experience)
            THEN << str_tp_role_prefix
                    \o Get(relevant_experience[1], "title", str_Software_Engineer)
                    \o str_tp_role_suffix >>
            ELSE <<>>
        company_name == Get(job_analysis, "company", <<>>)
        company_point ==
            IF truthy(company_name)
            THEN << str_tp_company_prefix \o company_name \o str_tp_company_suffix >>
            ELSE <<>>
        industry == Get(job_analysis, "industry", str_technology)
        industry_point == << str_tp_industry_prefix \o industry \o str_tp_industry_suffix >>
    IN  skills_point \o experience_point \o company_point \o industry_point

\* whether _identify_strengths raises KeyError on skills_analysis
identify_strengths_raises(skills_analysis) ==
    ~has_keys(skills_analysis, {"match_score", "total_matched"})

\* PersonalizationEngine._identify_strengths
identify_strengths(self, skills_analysis) ==
    (IF RatGt(skills_analysis["match_score"], Rat(7, 10))
     THEN <<str_strength_alignment>> ELSE <<>>)
    \o (IF skills_analysis["total_matched"] > 5
        THEN <<str_strength_experience>> ELSE <<>>)
    \o (IF Len(self.experience) > 2
        THEN <<str_strength_track_record>> ELSE <<>>)
    \o (IF truthy(self.education)
        THEN <<str_strength_education>> ELSE <<>>)

\* a slip of _identify_emphasis_areas: one label for every keyword found
identify_emphasis_areas_per_keyword(job_analysis) ==
    LET required_skills == Get(job_analysis, "key_requirements", <<>>)
        joined == lower(join(str_space, required_skills))
    IN  (IF contains(str_communication, joined)
         THEN <<str_emphasis_communication>> ELSE <<>>)
        \o (IF contains(str_leadership, joined) THEN <<str_emphasis_leadership>> ELSE <<>>)
        \o (IF contains(str_management, joined) THEN <<str_emphasis_leadership>> ELSE <<>>)
        \o (IF contains(str_agile, joined) THEN <<str_emphasis_agile>> ELSE <<>>)
        \o (IF contains(str_scrum, joined) THEN <<str_emphasis_agile>> ELSE <<>>)

\* PersonalizationEngine._identify_emphasis_areas
identify_emphasis_areas(job_analysis) ==
    LET required_skills == Get(job_analysis, "key_requirements", <<>>)
        joined == lower(join(str_space, required_skills))
    IN  (IF contains(str_communication, joined)
         THEN <<str_emphasis_communication>> ELSE <<>>)
        \o (IF contains(str_leadership, joined) \/ contains(str_management, joined)
            THEN <<str_emphasis_leadership>> ELSE <<>>)
        \o (IF contains(str_agile, joined) \/ contains(str_scrum, joined)
            THEN <<str_emphasis_agile>> ELSE <<>>)

\* the dict generate_personalized_content returns, or the KeyError of
\* _identify_strengths: [raised, value]
personalized_content(self, job_analysis, skills_analysis, relevant_experience) ==
    IF identify_strengths_raises(skills_analysis)
    THEN [raised |-> "KeyError", value |-> <<>>]
    ELSE [raised |-> "none",
          value  |-> [skills_match           |-> skills_analysis,
                      relevant_experience    |-> relevant_experience,
                      talking_points         |->
                          generate_talking_points(skills_analysis, relevant_experience,
                                                  job_analysis),
                      personal_info          |-> self.personal_info,
                      strengths_to_highlight |-> identify_strengths(self, skills_analysis),
                      areas_to_emphasize     |-> identify_emphasis_areas(job_analysis)]]

\* The mutable objects of the caller that the engine holds: __init__ keeps
\* what cv_data.get returns, not a copy.  An object is named by the place
\* that made it and by its maker, 0 for the caller of __init__.
engine_objects ==
    { <<"personal_info", 0>>, <<"experience", 0>>, <<"skills", 0>>, <<"education", 0>> }

\* the mutable objects reachable from the dict that invocation i returns:
\* the dict and its lists are made by the invocation (the literals of lines
\* 169-176, 29-30 and 48-54, the lists of the helpers, exp.copy() at line 117);
\* 'personal_info' is self.personal_info itself (line 173)
result_objects(i, content) ==
    { <<"personalized_content", i>>, <<"skills_match", i>>, <<"matched_skills", i>>,
      <<"missing_skills", i>>, <<"relevant_experience", i>>, <<"talking_points", i>>,
      <<"strengths_to_highlight", i>>, <<"areas_to_emphasize", i>> }
    \cup { <<"exp_copy", i, k>> : k \in 1..Len(content.relevant_experience) }
    \cup { <<"personal_info", 0>> }

\* a slip of generate_personalized_content: the defaults are stored in the job
job_after_generate_setdefault(job) ==
    [k \in DOMAIN job \cup {"role_title", "company", "key_requirements"} |->
        Get(job, k, <<>>)]

\* the caller's job dict after generate_personalized_content and the
\* functions it hands the dict to: they read it with .get() only
job_after_generate(job) == job

\* a slip of generate_personalized_content: the ranked entries are kept as the
\* engine's work history
engine_after_generate_keeps_ranked(self, job) ==
    with_experience(self, find_relevant_experience(self, Get(job, "role_title", <<>>),
                                                   Get(job, "key_requirements", <<>>)))

\* the engine after generate_personalized_content, which ranks once
engine_after_generate(self, job) ==
    engine_after_ranking(self, Get(job, "role_title", <<>>),
                         Get(job, "key_requirements", <<>>))

\* PersonalizationEngine.generate_personalized_content: [raised, value]
generate_personalized_content(self, job_analysis) ==
    personalized_content(self, job_analysis,
        analyze_skills_match(self, Get(job_analysis, "key_requirements", <<>>)),
        find_relevant_experience(self, Get(job_analysis, "role_title", <<>>),
                                 Get(job_analysis, "key_requirements", <<>>)))

Digits == <<"0","1","2","3","4","5","6","7","8","9">>

RECURSIVE str_of_int(_)
\* str(n) of an int n >= 0, as the f-string formats exp_count
str_of_int(n) ==
    IF n < 10 THEN <<Digits[n + 1]>>
    ELSE str_of_int(n \div 10) \o <<Digits[(n % 10) + 1]>>

\* a slip of get_candidate_summary: every skill is listed, not the first five
get_candidate_summary_all_skills(self) ==
    LET name_part ==
            IF truthy(Get(self.personal_info, "name", <<>>))
            THEN << str_summary_name_prefix \o self.personal_info["name"] >>
            ELSE <<>>
        experience_part ==
            IF truthy(self.experience)
            THEN << str_summary_exp_prefix \o str_of_int(Len(self.experience))
                    \o str_summary_exp_suffix >>
            ELSE <<>>
        skills_part ==
            IF truthy(self.skills)
            THEN << str_summary_skills_prefix \o join(str_comma_space, self.skills) >>
            ELSE <<>>
        education_part ==
            IF truthy(self.education)
            THEN << str_summary_degree_prefix \o Get(self.education[1], "degree", str_degree) >>
            ELSE <<>>
        summary_parts == name_part \o experience_part \o skills_part \o education_part
    IN  join(str_space, summary_parts) \o str_period

\* PersonalizationEngine.get_candidate_summary
get_candidate_summary(self) ==
    LET name_part ==
            IF truthy(Get(self.personal_info, "name", <<>>))
            THEN << str_summary_name_prefix \o self.personal_info["name"] >>
            ELSE <<>>
        experience_part ==
            IF truthy(self.experience)
            THEN << str_summary_exp_prefix \o str_of_int(Len(self.experience))
                    \o str_summary_exp_suffix >>
            ELSE <<>>
        skills_part ==
            IF truthy(self.skills)
            THEN << str_summary_skills_prefix \o join(str_comma_space, prefix(self.skills, 5)) >>
            ELSE <<>>
        education_part ==
            IF truthy(self.education)
            THEN << str_summary_degree_prefix \o Get(self.education[1], "degree", str_degree) >>
            ELSE <<>>
        summary_parts == name_part \o experience_part \o skills_part \o education_part
    IN  join(str_space, summary_parts) \o str_period

----------------------------------------------------------------------------
(* CV fields of any shape.  __init__ stores whatever cv_data holds; a value *)
(* is kept as its Python type, the items iterating over it yields, and its  *)
(* number (the int itself, the length of a container).                      *)

PyList(items) == [shape |-> "list", items |-> items, value |-> Len(items)]
\* iterating over a str yields its characters, each a str of length one
PyStr(s) == [shape |-> "str", items |-> [i \in 1..Len(s) |-> <<s[i]>>], value |-> Len(s)]
\* iterating over a dict yields its keys
PyDict(keys) == [shape |-> "dict", items |-> keys, value |-> Len(keys)]
PyInt(n) == [shape |-> "int", items |-> <<>>, value |-> n]

\* not x
falsy(x) == x.value = 0

\* analyze_skills_match, whatever self.skills is
analyze_skills_match_of_shape(self, job_requirements) ==
    IF ~truthy(job_requirements) \/ falsy(self.skills)
    THEN [raised |-> "none", value |-> zero_result(self, job_requirements)]
    ELSE IF self.skills.shape = "int"
    THEN [raised |-> "TypeError", value |-> <<>>]
    ELSE [raised |-> "none",
          value  |-> analyze_normalized(normalize_all(job_requirements),
                                        normalize_all(self.skills.items))]

\* find_relevant_experience, whatever self.experience is: an entry that is a
\* str has no get(), which is called once job_title or required_skills is set
find_relevant_experience_of_shape(self, job_title, required_skills) ==
    IF falsy(self.experience)
    THEN [raised |-> "none", value |-> <<>>]
    ELSE IF self.experience.shape = "int"
    THEN [raised |-> "TypeError", value |-> <<>>]
    ELSE IF self.experience.shape = "list"
    THEN [raised |-> "none",
          value  |-> find_relevant_experience([experience |-> self.experience.items],
                                              job_title, required_skills)]
    ELSE IF truthy(job_title) \/ truthy(required_skills)
    THEN [raised |-> "AttributeError", value |-> <<>>]
    ELSE [raised |-> "none", value |-> <<>>]

----------------------------------------------------------------------------
(* Bounds and input sets *)

\* longest candidate skill list and requirement list of the matcher's inputs
MaxSkills == 2
MaxReq == 2
\* longest work history and requirement list of the ranker's inputs
MaxExp == 4
MaxRankReq == 1
\* longest work history of the synthesizer's inputs
MaxFullExp == 3
\* invocations of generate_personalized_content running side by side
MaxInvocations == 2
Invocations == 1..MaxInvocations

SeqsUpTo(S, n) == UNION { [1..k -> S] : k \in 0..n }

\* the dict d without the keys outside keys
Restrict(d, keys) == [k \in keys \cap DOMAIN d |-> d[k]]

SkillPool == {str_Python, str_python_padded, str_JS, str_javascript, str_Docker, str_blank}

TableStrings ==
    UNION { {abbreviations[k][1]} \cup { abbreviations[k][2][j] : j \in 1..Len(abbreviations[k][2]) }
            : k \in 1..Len(abbreviations) }

MatchSkillLists == SeqsUpTo(SkillPool, MaxSkills) \cup { <<s>> : s \in TableStrings }
MatchReqLists == SeqsUpTo(SkillPool, MaxReq) \cup { <<s>> : s \in TableStrings }

\* the CV and the job of main()
sample_personal_info ==
    [name |-> str_John_Doe, email |-> str_john_email, phone |-> str_john_phone]
sample_experience ==
    [title |-> str_Software_Engineer, company |-> str_TechCorp,
     period |-> str_period_2020_2023, description |-> str_sample_description]
sample_skills == <<str_Python, str_React, str_JavaScript, str_AWS, str_Docker>>
sample_education ==
    [degree |-> str_Bachelor_of_Science, institution |-> str_University_of_Technology,
     year |-> str_2020]
sample_cv_data ==
    [personal_info |-> sample_personal_info, experience |-> <<sample_experience>>,
     skills |-> sample_skills, education |-> <<sample_education>>]
sample_requirements == <<str_Python, str_React, str_AWS, str_communication_skills>>
sample_job ==
    [role_title |-> str_Software_Engineer, company |-> str_Innovation_Inc,
     key_requirements |-> sample_requirements, industry |-> str_technology]

\* further work-history entries: a title sharing one word of four with
\* "Software Engineer" and no description; no title
exp_lead ==
    [title |-> str_Senior_Engineer_Lead, company |-> str_TechCorp,
     period |-> str_period_2020_2023, description |-> <<>>]
exp_untitled ==
    [title |-> <<>>, company |-> str_TechCorp,
     period |-> str_period_2020_2023, description |-> str_python]
ExpPool == {sample_experience, exp_lead, exp_untitled}
RankExpLists == SeqsUpTo(ExpPool, MaxExp)
RankTitles == {str_Software_Engineer, str_Senior_Engineer, <<>>}
RankReqLists == SeqsUpTo({str_Python, str_Python_padded}, MaxRankReq)

\* a CV with the given fields, as the CV parser hands it over
CV(personal_info, experience, skills, education) ==
    [personal_info |-> personal_info, experience |-> experience,
     skills |-> skills, education |-> education]

MatchCVs == { CV(<<>>, <<>>, s, <<>>) : s \in MatchSkillLists }
RankCVs == { CV(<<>>, e, <<>>, <<>>) : e \in RankExpLists }
FullCVs ==
    { CV(p, e, s, d) :
        p \in {<<>>, sample_personal_info},
        e \in SeqsUpTo({sample_experience, exp_untitled}, MaxFullExp),
        s \in {<<>>, <<str_JS>>, sample_skills},
        d \in {<<>>, <<sample_education>>} }
    \cup {<<>>}

FullReqLists == {<<>>, <<str_javascript>>, sample_requirements}
FullTitles == {str_Software_Engineer, <<>>}
\* job analyses with every combination of keys set or missing
Jobs ==
    { Restrict([role_title |-> str_Software_Engineer, company |-> c,
                key_requirements |-> r, industry |-> str_technology], keys) :
        c \in {<<>>, str_Innovation_Inc},
        r \in FullReqLists,
        keys \in SUBSET {"role_title", "company", "key_requirements", "industry"} }

----------------------------------------------------------------------------
(* config/personal_info.py.  A dict object is modelled by its items and by *)
(* whether it is the module's PERSONAL_INFO itself: the items of the       *)
(* module's dict are the variable PERSONAL_INFO, those of any other dict   *)
(* are its own.  Values are str or lists of str; no function of the module *)
(* changes a list in place.                                                *)

\* PERSONAL_INFO as the module defines it
PERSONAL_INFO_at_import ==
    [your_name |-> str_Your_Name,
     phone |-> str_1_555_123_4567,
     email |-> str_your_email_example_com,
     linkedin |-> str_linkedin_com_in_yourprofile,
     github |-> str_github_com_yourusername,
     portfolio |-> str_yourportfolio_com,
     professional_summary |-> str_Experienced_software_engineer_with_a_pas,
     key_skills |-> <<str_Python, str_JavaScript_React, str_AWS_Cloud_Computing,
                        str_Database_Design, str_API_Development, str_Agile_Methodologies,
                        str_Problem_Solving>>,
     relevant_experience |-> str_building_scalable_web_applications_and_c,
     years_experience |-> str_5_years,
     current_role |-> str_Senior_Software_Engineer,
     education |-> str_Bachelor_s_in_Computer_Science,
     certifications |-> <<str_AWS_Certified_Developer,
                        str_Google_Cloud_Professional_Developer>>,
     notable_projects |-> <<str_Led_development_of_microservices_archite,
                        str_Implemented_CI_CD_pipeline_reducing_depl,
                        str_Designed_and_built_RESTful_APIs_for_mobi>>,
     industry_focus |-> str_technology_and_software_development,
     career_goals |-> str_Continue_growing_as_a_technical_leader_w]

\* the dict object d.copy() returns: a new dict with the items of d
dict_copy(items) == [is_PERSONAL_INFO |-> FALSE, items |-> items]

\* get_personal_info()
get_personal_info(personal_info) == dict_copy(personal_info)

\* a slip of update_personal_info: the key is stored without the membership test
update_personal_info_any_key(personal_info, key, value) ==
    [returned |-> TRUE,
     PERSONAL_INFO |-> [k \in DOMAIN personal_info \cup {key} |->
                           IF k = key THEN value ELSE personal_info[k]]]

\* update_personal_info(key, value): what it returns and the items of
\* PERSONAL_INFO after it
update_personal_info(personal_info, key, value) ==
    IF key \in DOMAIN personal_info
    THEN [returned |-> TRUE, PERSONAL_INFO |-> [personal_info EXCEPT ![key] = value]]
    ELSE [returned |-> FALSE, PERSONAL_INFO |-> personal_info]

----------------------------------------------------------------------------
(* tools/cv_parser.py.  The CV folder is what the parser finds on disk at  *)
(* the call: whether it exists and its files in the order iterdir() yields *)
(* them, each with its name, whether PyPDF2 reads it without an exception  *)
(* and the text of its pages.  None is the empty path.  What the regular   *)
(* expressions of the extract_* methods find in the text is left open: any *)
(* value of the shape the method builds.                                   *)

\* tools/cv_parser.py: CVParser.__init__
CVParser(cv_folder) ==
    [cv_folder |-> cv_folder, cv_file |-> <<>>, cv_text |-> <<>>, parsed_data |-> <<>>]

cv_extensions == {str_ext_pdf, str_ext_docx, str_ext_doc, str_ext_txt}

RECURSIVE last_dot(_, _)
\* the position of the last "." among the first i characters of name, or 0
last_dot(name, i) ==
    IF i = 0 THEN 0
    ELSE IF name[i] = "." THEN i ELSE last_dot(name, i - 1)

\* Path(name).suffix
path_suffix(name) ==
    LET dot == last_dot(name, Len(name))
    IN  IF dot <= 1 THEN <<>> ELSE SubSeq(name, dot, Len(name))

\* s.endswith(tail)
endswith(s, tail) ==
    Len(s) >= Len(tail) /\ SubSeq(s, Len(s) - Len(tail) + 1, Len(s)) = tail

\* the test of the loop of find_cv_file
is_cv_file(file) == lower(path_suffix(file.name)) \in cv_extensions

\* CVParser.find_cv_file: whether a CV file was found, str(file_path) and the file
find_cv_file(self, folder) ==
    LET cv_files == IF folder.exists THEN SelectSeq(folder.files, is_cv_file) ELSE <<>>
    IN  IF cv_files = <<>>
        THEN [found |-> FALSE, path |-> <<>>, file |-> <<>>]
        ELSE [found |-> TRUE,
              path  |-> self.cv_folder \o str_slash \o cv_files[1].name,
              file  |-> cv_files[1]]

RECURSIVE pages_text(_)
\* the loop of extract_text_from_pdf
pages_text(pages) ==
    IF pages = <<>> THEN <<>>
    ELSE pages[1] \o str_newline \o pages_text(Tail(pages))

\* CVParser.extract_text_from_pdf: any exception gives ""
extract_text_from_pdf(file) ==
    IF file.readable THEN pages_text(file.pages) ELSE <<>>

\* the number of characters of the text kept as raw_text
RawTextLen == 1000

\* the dict parse_cv builds from the text and from what the extractors find
parsed_data_of(cv_text, extracted) ==
    [personal_info |-> extracted.personal_info,
     experience    |-> extracted.experience,
     skills        |-> extracted.skills,
     education     |-> extracted.education,
     raw_text      |-> prefix(cv_text, RawTextLen)]

\* the body of parse_cv: what it returns and the parser after it
parse_cv_body(self, folder, extracted) ==
    LET cv_path == find_cv_file(self, folder)
        cv_text == extract_text_from_pdf(cv_path.file)
        parsed_data == parsed_data_of(cv_text, extracted)
    IN  IF ~cv_path.found
        THEN [returned |-> <<>>, self |-> self]
        ELSE IF ~endswith(lower(cv_path.path), str_ext_pdf)
        THEN [returned |-> <<>>, self |-> [self EXCEPT !.cv_file = cv_path.path]]
        ELSE IF ~truthy(cv_text)
        THEN [returned |-> <<>>,
              self |-> [self EXCEPT !.cv_file = cv_path.path, !.cv_text = cv_text]]
        ELSE [returned |-> parsed_data,
              self |-> [self EXCEPT !.cv_file = cv_path.path, !.cv_text = cv_text,
                                    !.parsed_data = parsed_data]]

\* a slip of parse_cv: the data of the last parse is dropped before parsing
parse_cv_from_scratch(self, folder, extracted) ==
    parse_cv_body([self EXCEPT !.parsed_data = <<>>], folder, extracted)

\* CVParser.parse_cv
parse_cv(self, folder, extracted) == parse_cv_body(self, folder, extracted)

\* CVParser.get_summary
get_summary(self) ==
    IF ~truthy(self.parsed_data)
    THEN str_No_CV_data_available
    ELSE
      LET name_part ==
              IF truthy(Get(Get(self.parsed_data, "personal_info", <<>>), "name", <<>>))
              THEN << str_summary_Name \o self.parsed_data["personal_info"]["name"] >>
              ELSE <<>>
          exp_count == Len(Get(self.parsed_data, "experience", <<>>))
          experience_part ==
              IF exp_count > 0
              THEN << str_summary_Experience \o str_of_int(exp_count)
                      \o str_summary_positions >>
              ELSE <<>>
          skills_count == Len(Get(self.parsed_data, "skills", <<>>))
          skills_part ==
              IF skills_count > 0
              THEN << str_summary_Skills
                      \o join(str_comma_space, prefix(self.parsed_data["skills"], 5)) >>
              ELSE <<>>
          edu_count == Len(Get(self.parsed_data, "education", <<>>))
          education_part ==
              IF edu_count > 0
              THEN << str_summary_Education \o str_of_int(edu_count)
                      \o str_summary_degrees >>
              ELSE <<>>
          summary == name_part \o experience_part \o skills_part \o education_part
      IN  join(str_bar, summary)

----------------------------------------------------------------------------
(* run_agent.py.  main runs its sections in order; pc is the section it is *)
(* at and run what it has seen so far.  What a section meets (an import    *)
(* that fails, a request that raises, the status and the models Ollama     *)
(* answers with, the test script or the agent raising) is chosen by the    *)
(* environment.                                                            *)

\* run_agent.main before it is called
NotRun == <<>>

\* the locals of main as it starts: nothing checked, the agent not started
main_started(test_flag) ==
    [test_flag |-> test_flag, tests |-> "not run", connection |-> "not checked",
     status_code |-> 0, model |-> "not checked", agent |-> "not started"]

\* the section main goes to first: the tests when sys.argv[1] is "--test"
first_section(test_flag) == IF test_flag THEN "tests" ELSE "connection"

\* the --test section: an exception of the import or of the tests is caught
run_tests(locals, raises) ==
    [pc |-> "connection",
     run |-> [locals EXCEPT !.tests = IF raises THEN "raised" ELSE "returned"]]

\* a slip of the connection check: main gives up on an unexpected status too
check_connection_strict(locals, raises, status_code) ==
    IF raises
    THEN [pc |-> "returned", run |-> [locals EXCEPT !.connection = "raised"]]
    ELSE [pc |-> IF status_code = 200 THEN "model" ELSE "returned",
          run |-> [locals EXCEPT !.connection = "completed", !.status_code = status_code]]

\* the connection check: main returns when import requests or the request
\* raises, and goes on with any status
check_connection(locals, raises, status_code) ==
    IF raises
    THEN [pc |-> "returned", run |-> [locals EXCEPT !.connection = "raised"]]
    ELSE [pc |-> "model",
          run |-> [locals EXCEPT !.connection = "completed", !.status_code = status_code]]

\* the model check: an exception is caught, a missing model is reported
check_model(locals, raises, model_names) ==
    [pc |-> "agent",
     run |-> [locals EXCEPT !.model =
                 IF raises THEN "raised"
                 ELSE IF \E i \in 1..Len(model_names) : model_names[i] = str_deepseek_r1_1_5b
                      THEN "available"
                 ELSE "not found"]]

\* the last section: jd_agent is imported and its main is run; both may raise
start_agent(locals, outcome) ==
    [pc |-> "returned", run |-> [locals EXCEPT !.agent = outcome]]

----------------------------------------------------------------------------
(* Operations.  The engine is called by one sequential caller: a call runs *)
(* to its return or its exception, and the caller takes the outcome before *)
(* it calls again.                                                         *)

Idle == op = "idle"

\* engine.analyze_skills_match(job_requirements)
AnalyzeSkillsMatch(reqLists) ==
    /\ Idle
    /\ \E job_requirements \in reqLists :
        /\ op' = "analyze_skills_match"
        /\ args' = [job_requirements |-> job_requirements]
        /\ result' = analyze_skills_match(engine, job_requirements)
        /\ raised' = "none"
    /\ caller_job' = <<>>
    /\ UNCHANGED <<engine, previous, calls,
                   config_vars, parser_vars, runner_vars>>

\* engine.find_relevant_experience(job_title, required_skills)
FindRelevantExperience(titles, reqLists) ==
    /\ Idle
    /\ \E job_title \in titles, required_skills \in reqLists :
        /\ op' = "find_relevant_experience"
        /\ args' = [job_title |-> job_title, required_skills |-> required_skills]
        /\ result' = find_relevant_experience(engine, job_title, required_skills)
        /\ raised' = "none"
        /\ engine' = engine_after_ranking(engine, job_title, required_skills)
    /\ caller_job' = <<>>
    /\ UNCHANGED <<previous, calls,
                   config_vars, parser_vars, runner_vars>>

\* engine.generate_personalized_content(job_analysis)
GeneratePersonalizedContent(jobs) ==
    /\ Idle
    /\ \E job_analysis \in jobs :
        LET outcome == generate_personalized_content(engine, job_analysis)
        IN  /\ op' = "generate_personalized_content"
            /\ args' = [job_analysis |-> job_analysis]
            /\ result' = outcome.value
            /\ raised' = outcome.raised
            /\ engine' = engine_after_generate(engine, job_analysis)
            /\ caller_job' = job_after_generate(job_analysis)
    /\ UNCHANGED <<previous, calls,
                   config_vars, parser_vars, runner_vars>>

\* engine.get_candidate_summary()
GetCandidateSummary ==
    /\ Idle
    /\ op' = "get_candidate_summary"
    /\ args' = <<>>
    /\ result' = get_candidate_summary(engine)
    /\ raised' = "none"
    /\ caller_job' = <<>>
    /\ UNCHANGED <<engine, previous, calls,
                   config_vars, parser_vars, runner_vars>>

\* the caller takes the outcome of the call
Return ==
    /\ ~Idle
    /\ op' = "idle"
    /\ args' = <<>>
    /\ result' = <<>>
    /\ raised' = "none"
    /\ caller_job' = <<>>
    /\ UNCHANGED <<engine, previous, calls,
                   config_vars, parser_vars, runner_vars>>

\* no call kept
NoCall == [op |-> "idle", args |-> <<>>, result |-> <<>>, raised |-> "none"]

\* the caller takes the outcome of the call and keeps it beside the call
ReturnAndKeep ==
    /\ ~Idle
    /\ previous' = [op |-> op, args |-> args, result |-> result, raised |-> raised]
    /\ op' = "idle"
    /\ args' = <<>>
    /\ result' = <<>>
    /\ raised' = "none"
    /\ caller_job' = <<>>
    /\ UNCHANGED <<engine, calls,
                   config_vars, parser_vars, runner_vars>>

\* an invocation that has not begun: its position and its locals
NotInvoked ==
    [pc |-> "idle", job_analysis |-> <<>>, job_title |-> <<>>, required_skills |-> <<>>,
     skills_analysis |-> <<>>, relevant_experience |-> <<>>,
     result |-> <<>>, raised |-> "none", objects |-> {}]

\* lines 154-156: the invocation begins and reads the job's fields
Invoke(i, jobs) ==
    /\ calls[i].pc = "idle"
    /\ \E job_analysis \in jobs :
        calls' = [calls EXCEPT ![i] =
                    [@ EXCEPT !.pc = "analyze",
                              !.job_analysis = job_analysis,
                              !.job_title = Get(job_analysis, "role_title", <<>>),
                              !.required_skills = Get(job_analysis, "key_requirements", <<>>)]]
    /\ UNCHANGED <<engine, op, args, result, raised, caller_job, previous,
                   config_vars, parser_vars, runner_vars>>

\* line 159: skills_analysis = self.analyze_skills_match(required_skills)
AnalyzeStep(i) ==
    /\ calls[i].pc = "analyze"
    /\ calls' = [calls EXCEPT ![i] =
                    [@ EXCEPT !.pc = "rank",
                              !.skills_analysis =
                                  analyze_skills_match(engine, calls[i].required_skills)]]
    /\ UNCHANGED <<engine, op, args, result, raised, caller_job, previous,
                   config_vars, parser_vars, runner_vars>>

\* line 162: relevant_experience = self.find_relevant_experience(...)
RankStep(i) ==
    /\ calls[i].pc = "rank"
    /\ calls' = [calls EXCEPT ![i] =
                    [@ EXCEPT !.pc = "return",
                              !.relevant_experience =
                                  find_relevant_experience(engine, calls[i].job_title,
                                                           calls[i].required_skills)]]
    /\ engine' = engine_after_ranking(engine, calls[i].job_title, calls[i].required_skills)
    /\ UNCHANGED <<op, args, result, raised, caller_job, previous,
                   config_vars, parser_vars, runner_vars>>

\* lines 165-176: the talking points, and the result dict with the strengths
\* and the emphasis areas, or the KeyError of _identify_strengths
ReturnStep(i) ==
    /\ calls[i].pc = "return"
    /\ LET outcome == personalized_content(engine, calls[i].job_analysis,
                                           calls[i].skills_analysis,
                                           calls[i].relevant_experience)
       IN  calls' = [calls EXCEPT ![i] =
                       [@ EXCEPT !.pc = "done",
                                 !.result = outcome.value,
                                 !.raised = outcome.raised,
                                 !.objects = IF outcome.raised = "none"
                                             THEN result_objects(i, outcome.value)
                                             ELSE {}]]
    /\ UNCHANGED <<engine, op, args, result, raised, caller_job, previous,
                   config_vars, parser_vars, runner_vars>>

InitWith(cvs) ==
    /\ engine \in { PersonalizationEngine(cv_data) : cv_data \in cvs }
    /\ op = "idle"
    /\ args = <<>>
    /\ result = <<>>
    /\ raised = "none"
    /\ caller_job = <<>>
    /\ previous = NoCall
    /\ calls = [i \in Invocations |-> NotInvoked]
    /\ PERSONAL_INFO = PERSONAL_INFO_at_import
    /\ copies = <<>>
    /\ parser = CVParser(str_CV)
    /\ last_parsed = <<>>
    /\ pc = "not run"
    /\ run = NotRun

\* the whole engine
Init == InitWith(FullCVs)
Next ==
    \/ AnalyzeSkillsMatch(FullReqLists)
    \/ FindRelevantExperience(FullTitles, FullReqLists)
    \/ GeneratePersonalizedContent(Jobs)
    \/ GetCandidateSummary
    \/ Return
Spec == Init /\ [][Next]_vars

\* the skill matcher on its own
InitMatch == InitWith(MatchCVs)
NextMatch == AnalyzeSkillsMatch(MatchReqLists) \/ Return
SpecMatch == InitMatch /\ [][NextMatch]_vars

\* the experience ranker on its own
InitRank == InitWith(RankCVs)
NextRank == FindRelevantExperience(RankTitles, RankReqLists) \/ Return
SpecRank == InitRank /\ [][NextRank]_vars

\* generate_personalized_content called again and again on one engine, the
\* caller keeping the outcome of the call before
TwiceCVs ==
    { cv \in FullCVs : Get(cv, "education", <<>>) = <<>>
                       /\ Get(cv, "personal_info", <<>>) /= <<>> }
TwiceJobs == { job \in Jobs : "company" \notin DOMAIN job /\ "industry" \in DOMAIN job }
InitTwice == InitWith(TwiceCVs)
NextTwice == GeneratePersonalizedContent(TwiceJobs) \/ ReturnAndKeep
SpecTwice == InitTwice /\ [][NextTwice]_vars

\* CVs whose skills and experience are a list, a str, a dict or an int
ShapedSkills ==
    { PyList(<<>>), PyList(<<str_Python>>), PyStr(<<>>), PyStr(str_Python),
      PyDict(<<>>), PyDict(<<str_Python>>), PyInt(0), PyInt(5) }
ShapedExperience ==
    { PyList(<<>>), PyList(<<sample_experience>>), PyStr(<<>>), PyStr(str_TechCorp),
      PyDict(<<>>), PyDict(<<str_Software_Engineer>>), PyInt(0), PyInt(3) }
ShapedCVs ==
    { [skills |-> s, experience |-> e] : s \in ShapedSkills, e \in ShapedExperience }

AnalyzeSkillsMatchOfShape ==
    /\ Idle
    /\ \E job_requirements \in FullReqLists :
        LET outcome == analyze_skills_match_of_shape(engine, job_requirements)
        IN  /\ op' = "analyze_skills_match"
            /\ args' = [job_requirements |-> job_requirements]
            /\ result' = outcome.value
            /\ raised' = outcome.raised
    /\ caller_job' = <<>>
    /\ UNCHANGED <<engine, previous, calls,
                   config_vars, parser_vars, runner_vars>>

FindRelevantExperienceOfShape ==
    /\ Idle
    /\ \E job_title \in FullTitles, required_skills \in FullReqLists :
        LET outcome == find_relevant_experience_of_shape(engine, job_title, required_skills)
        IN  /\ op' = "find_relevant_experience"
            /\ args' = [job_title |-> job_title, required_skills |-> required_skills]
            /\ result' = outcome.value
            /\ raised' = outcome.raised
    /\ caller_job' = <<>>
    /\ UNCHANGED <<engine, previous, calls,
                   config_vars, parser_vars, runner_vars>>

InitShape == InitWith(ShapedCVs)
NextShape == AnalyzeSkillsMatchOfShape \/ FindRelevantExperienceOfShape \/ Return
SpecShape == InitShape /\ [][NextShape]_vars

\* _generate_talking_points as generate_personalized_content calls it (lines
\* 159-167), with the analysis and the ranking of the engine for the job
TalkReqLists ==
    FullReqLists \cup { <<str_Python, str_React, str_AWS, str_Docker>>,
                        <<str_javascript, str_communication_skills>> }
TalkJobs ==
    { Restrict([role_title |-> str_Software_Engineer, company |-> c,
                key_requirements |-> r, industry |-> str_technology], keys) :
        c \in {<<>>, str_Innovation_Inc},
        r \in TalkReqLists,
        keys \in SUBSET {"role_title", "company", "key_requirements", "industry"} }

TalkingPointsCall(skills_analysis, relevant_experience, job_analysis) ==
    /\ op' = "_generate_talking_points"
    /\ args' = [skills_analysis |-> skills_analysis,
                relevant_experience |-> relevant_experience,
                job_analysis |-> job_analysis]
    /\ result' = generate_talking_points(skills_analysis, relevant_experience, job_analysis)
    /\ raised' = "none"

GenerateTalkingPoints ==
    /\ Idle
    /\ \E job_analysis \in TalkJobs :
        TalkingPointsCall(
            analyze_skills_match(engine, Get(job_analysis, "key_requirements", <<>>)),
            find_relevant_experience(engine, Get(job_analysis, "role_title", <<>>),
                                     Get(job_analysis, "key_requirements", <<>>)),
            job_analysis)
    /\ caller_job' = <<>>
    /\ UNCHANGED <<engine, previous, calls,
                   config_vars, parser_vars, runner_vars>>

InitTalking == InitWith(TwiceCVs)
NextTalking == GenerateTalkingPoints \/ Return
SpecTalking == InitTalking /\ [][NextTalking]_vars

\* _identify_emphasis_areas on its own, over requirement lists naming the
\* keywords of every family in mixed case, and over a job without the key
MaxEmphasisReq == 3
EmphasisPool ==
    {str_communication_skills, str_Team_Leadership, str_Project_Management,
     str_Agile, str_Scrum, str_Python}
EmphasisJobs ==
    { [key_requirements |-> r] : r \in SeqsUpTo(EmphasisPool, MaxEmphasisReq) }
    \cup { [role_title |-> str_Software_Engineer] }

\* self._identify_emphasis_areas(job_analysis)
IdentifyEmphasisAreas ==
    /\ Idle
    /\ \E job_analysis \in EmphasisJobs :
        /\ op' = "_identify_emphasis_areas"
        /\ args' = [job_analysis |-> job_analysis]
        /\ result' = identify_emphasis_areas(job_analysis)
        /\ raised' = "none"
    /\ caller_job' = <<>>
    /\ UNCHANGED <<engine, previous, calls,
                   config_vars, parser_vars, runner_vars>>

InitEmphasis == InitWith({sample_cv_data})
NextEmphasis == IdentifyEmphasisAreas \/ Return
SpecEmphasis == InitEmphasis /\ [][NextEmphasis]_vars

\* get_candidate_summary on its own, over CVs with a name, an empty name or
\* none, with up to MaxFullExp work-history entries, with up to six skills and
\* with up to two education entries
master_education ==
    [degree |-> str_Master_of_Science, institution |-> str_University_of_Technology,
     year |-> str_2020]
SummaryCVs ==
    { CV(p, e, s, d) :
        p \in {<<>>, sample_personal_info,
               [name |-> <<>>, email |-> str_john_email, phone |-> str_john_phone]},
        e \in SeqsUpTo({sample_experience}, MaxFullExp),
        s \in {<<>>, <<str_JS>>, sample_skills, sample_skills \o <<str_JS>>},
        d \in {<<>>, <<sample_education>>, <<master_education, sample_education>>} }
    \cup {<<>>}

InitSummary == InitWith(SummaryCVs)
NextSummary == GetCandidateSummary \/ Return
SpecSummary == InitSummary /\ [][NextSummary]_vars

\* the skill matcher over skill lists long enough to have six orders
MaxOrderSkills == 3
OrderCVs ==
    { CV(<<>>, <<>>, s, <<>>) : s \in SeqsUpTo({str_Python, str_JS, str_blank}, MaxOrderSkills) }
OrderReqLists == SeqsUpTo({str_python_padded, str_javascript, str_Docker}, MaxReq)

InitOrder == InitWith(OrderCVs)
NextOrder == AnalyzeSkillsMatch(OrderReqLists) \/ Return
SpecOrder == InitOrder /\ [][NextOrder]_vars

\* config/personal_info.py: updates of two keys the module defines and of
\* two it does not, and the dicts the caller has got from get_personal_info
MaxCopies == 2
UpdateKeys == {"your_name", "key_skills", "name", "skills"}
UpdateValues == {str_John_Doe, <<str_Python, str_Docker>>}

\* update_personal_info(key, value)
UpdatePersonalInfo ==
    /\ Idle
    /\ \E key \in UpdateKeys, value \in UpdateValues :
        LET outcome == update_personal_info(PERSONAL_INFO, key, value)
        IN  /\ op' = "update_personal_info"
            /\ args' = [key |-> key, value |-> value]
            /\ result' = outcome.returned
            /\ raised' = "none"
            /\ PERSONAL_INFO' = outcome.PERSONAL_INFO
    /\ caller_job' = <<>>
    /\ UNCHANGED <<engine, previous, calls, copies, parser_vars, runner_vars>>

\* get_personal_info(); the caller keeps the dict it gets
GetPersonalInfo ==
    /\ Idle
    /\ Len(copies) < MaxCopies
    /\ op' = "get_personal_info"
    /\ args' = <<>>
    /\ result' = get_personal_info(PERSONAL_INFO)
    /\ raised' = "none"
    /\ copies' = Append(copies, get_personal_info(PERSONAL_INFO))
    /\ caller_job' = <<>>
    /\ UNCHANGED <<engine, previous, calls, PERSONAL_INFO, parser_vars, runner_vars>>

InitConfig == InitWith({sample_cv_data})
NextConfig == UpdatePersonalInfo \/ GetPersonalInfo \/ Return
SpecConfig == InitConfig /\ [][NextConfig]_vars

\* tools/cv_parser.py: the files the CV folder may hold, and what the
\* extractors may find in the text of a CV
MaxFiles == 2
FilePool ==
    { [name |-> str_notes_md, readable |-> FALSE, pages |-> <<>>],
      [name |-> str_resume_docx, readable |-> FALSE, pages |-> <<>>],
      [name |-> str_resume_pdf, readable |-> FALSE, pages |-> <<>>],
      [name |-> str_resume_pdf, readable |-> TRUE, pages |-> <<>>],
      [name |-> str_resume_pdf, readable |-> TRUE, pages |-> << <<>> >>],
      [name |-> str_Resume_PDF, readable |-> TRUE, pages |-> << str_John_Doe >>] }
Folders ==
    { [exists |-> FALSE, files |-> <<>>] }
    \cup { [exists |-> TRUE, files |-> files] : files \in SeqsUpTo(FilePool, MaxFiles) }
six_skills == <<str_Python, str_React, str_JavaScript, str_AWS, str_Docker, str_Agile>>
parsed_experience ==
    << [period |-> str_period_2020_2023, title |-> str_Software_Engineer,
        company |-> str_TechCorp, description |-> <<>>] >>
parsed_education ==
    << [degree |-> str_Bachelor, institution |-> str_University_of_Technology,
        year |-> <<>>] >>
Extractions ==
    { [personal_info |-> [name |-> name, email |-> <<>>, phone |-> <<>>,
                          location |-> <<>>, linkedin |-> <<>>],
       experience    |-> history[1],
       skills        |-> skills,
       education     |-> history[2]] :
        name \in {<<>>, str_John_Doe},
        history \in {<< <<>>, <<>> >>, <<parsed_experience, parsed_education>>},
        skills \in {<<>>, <<str_Docker, str_Python>>, six_skills} }

\* parser.parse_cv(); the caller keeps the data of the last call that gave some
ParseCV ==
    /\ Idle
    /\ \E folder \in Folders, extracted \in Extractions :
        LET outcome == parse_cv(parser, folder, extracted)
        IN  /\ op' = "parse_cv"
            /\ args' = <<>>
            /\ result' = outcome.returned
            /\ raised' = "none"
            /\ parser' = outcome.self
            /\ last_parsed' = IF outcome.returned /= <<>> THEN outcome.returned
                              ELSE last_parsed
    /\ caller_job' = <<>>
    /\ UNCHANGED <<engine, previous, calls, config_vars, runner_vars>>

\* parser.get_summary()
GetSummary ==
    /\ Idle
    /\ op' = "get_summary"
    /\ args' = <<>>
    /\ result' = get_summary(parser)
    /\ raised' = "none"
    /\ caller_job' = <<>>
    /\ UNCHANGED <<engine, previous, calls, config_vars, parser_vars, runner_vars>>

InitParser == InitWith({sample_cv_data})
NextParser == ParseCV \/ GetSummary \/ Return
SpecParser == InitParser /\ [][NextParser]_vars

\* run_agent.py: the statuses Ollama may answer with and the models it lists
StatusCodes == {200, 404, 500}
ModelLists == {<<>>, <<str_llama3>>, <<str_llama3, str_deepseek_r1_1_5b>>}
AgentOutcomes == {"ImportError", "raised", "returned"}

runner_untouched ==
    UNCHANGED <<engine, op, args, result, raised, caller_job, previous, calls,
                config_vars, parser_vars>>

\* main() is called, with or without --test
Main ==
    /\ pc = "not run"
    /\ \E test_flag \in BOOLEAN :
        /\ pc' = first_section(test_flag)
        /\ run' = main_started(test_flag)
    /\ runner_untouched

\* the --test section of main
RunTests ==
    /\ pc = "tests"
    /\ \E raises \in BOOLEAN :
        /\ pc' = run_tests(run, raises).pc
        /\ run' = run_tests(run, raises).run
    /\ runner_untouched

\* the connection check of main
CheckConnection ==
    /\ pc = "connection"
    /\ \E raises \in BOOLEAN, status_code \in StatusCodes :
        /\ pc' = check_connection(run, raises, status_code).pc
        /\ run' = check_connection(run, raises, status_code).run
    /\ runner_untouched

\* the model check of main
CheckModel ==
    /\ pc = "model"
    /\ \E raises \in BOOLEAN, model_names \in ModelLists :
        /\ pc' = check_model(run, raises, model_names).pc
        /\ run' = check_model(run, raises, model_names).run
    /\ runner_untouched

\* the last section of main
StartAgent ==
    /\ pc = "agent"
    /\ \E outcome \in AgentOutcomes :
        /\ pc' = start_agent(run, outcome).pc
        /\ run' = start_agent(run, outcome).run
    /\ runner_untouched

InitRunner == InitWith({sample_cv_data})
NextRunner == Main \/ RunTests \/ CheckConnection \/ CheckModel \/ StartAgent
SpecRunner == InitRunner /\ [][NextRunner]_vars

\* _calculate_similarity on its own, over every table string and every
\* normalized skill of the pool
SimilarityPool == TableStrings \cup { normalize(skill) : skill \in SkillPool }

CalculateSimilarity ==
    /\ Idle
    /\ \E skill1 \in SimilarityPool, skill2 \in SimilarityPool :
        /\ op' = "_calculate_similarity"
        /\ args' = [skill1 |-> skill1, skill2 |-> skill2]
        /\ result' = calculate_similarity(skill1, skill2)
        /\ raised' = "none"
    /\ caller_job' = <<>>
    /\ UNCHANGED <<engine, previous, calls,
                   config_vars, parser_vars, runner_vars>>

InitSimilarity == InitWith({sample_cv_data})
NextSimilarity == CalculateSimilarity \/ Return
SpecSimilarity == InitSimilarity /\ [][NextSimilarity]_vars

\* invocations of generate_personalized_content interleaved on one engine,
\* statement by statement
ConcurrentCVs ==
    { CV(sample_personal_info, e, s, <<>>) :
        e \in {<<>>, <<sample_experience>>, <<sample_experience, exp_untitled>>},
        s \in {<<>>, sample_skills} }
ConcurrentJobs ==
    { sample_job,
      [key_requirements |-> <<str_javascript>>, industry |-> str_technology],
      [role_title |-> str_Software_Engineer] }
InitConcurrent == InitWith(ConcurrentCVs)
NextConcurrent ==
    \E i \in Invocations :
        \/ Invoke(i, ConcurrentJobs)
        \/ AnalyzeStep(i)
        \/ RankStep(i)
        \/ ReturnStep(i)
SpecConcurrent == InitConcurrent /\ [][NextConcurrent]_vars

----------------------------------------------------------------------------
(* Claims *)

\* a skill as the specification normalises it: lower-cased and trimmed
Normalized(skill) == strip(lower(skill))
NormalizedAll(skills) == [i \in 1..Len(skills) |-> Normalized(skills[i])]
Elements(lst) == { lst[i] : i \in 1..Len(lst) }

Zero == Rat(0, 1)
One == Rat(1, 1)

Analyzed == op = "analyze_skills_match"
Ranked == op = "find_relevant_experience"
Generated == op = "generate_personalized_content"

\* the (full form, abbreviation) pairs the specification lists
AbbreviationPairs ==
    { <<str_javascript, str_js>>, <<str_python, str_py>>, <<str_react, str_reactjs>>,
      <<str_node_js, str_nodejs>>, <<str_node_js, str_node>>,
      <<str_aws, str_amazon_web_services>>,
      <<str_sql, str_mysql>>, <<str_sql, str_postgresql>>, <<str_sql, str_sqlite>>,
      <<str_git, str_github>>, <<str_git, str_gitlab>> }

\* C1: every result of analyze_skills_match has a match_score in [0,1], and
\* matched_skills and missing_skills partition the normalized requirements:
\* no requirement is in both, and together they are the whole normalized list.
C1_ScoreRangeAndPartition ==
    Analyzed =>
        /\ RatGe(result.match_score, Zero)
        /\ RatGe(One, result.match_score)
        /\ Elements(result.matched_skills) \cap Elements(result.missing_skills) = {}
        /\ Elements(result.matched_skills) \cup Elements(result.missing_skills)
               = Elements(NormalizedAll(args.job_requirements))

\* the industry-enthusiasm sentence for a job
IndustrySentence(job_analysis) ==
    str_tp_industry_prefix \o Get(job_analysis, "industry", str_technology)
        \o str_tp_industry_suffix

\* the call is generate_personalized_content on a CV without skills and
\* experience, for a job with requirements
EmptyCVCall ==
    /\ Generated
    /\ engine.skills = <<>>
    /\ engine.experience = <<>>
    /\ Get(args.job_analysis, "key_requirements", <<>>) /= <<>>

\* C2: for a CV with no skills and no experience and a job with requirements,
\* generate_personalized_content returns without faulting, with match_score 0,
\* no relevant experience, and the industry-enthusiasm talking point.
C2_EmptyCVScenario ==
    EmptyCVCall =>
        /\ raised = "none"
        /\ RatEq(result.skills_match.match_score, Zero)
        /\ result.relevant_experience = <<>>
        /\ IndustrySentence(args.job_analysis) \in Elements(result.talking_points)

\* C3: no core operation raises for well-typed input, whatever empty strings,
\* empty sequences, missing job fields or all-zero matches it contains.
C3_NoOperationRaises == raised = "none"

\* C4: with an empty candidate skill list and a non-empty requirement list,
\* analyze_skills_match returns match_score 0, no matched skill, and every
\* normalized requirement in missing_skills.
C4_ZeroResultListsRequirements ==
    (Analyzed /\ engine.skills = <<>> /\ args.job_requirements /= <<>>) =>
        /\ RatEq(result.match_score, Zero)
        /\ result.matched_skills = <<>>
        /\ Elements(NormalizedAll(args.job_requirements))
               \subseteq Elements(result.missing_skills)

\* C5: for every candidate skill list, analyze_skills_match with an empty
\* requirement list returns match_score 0 and an empty missing_skills.
C5_EmptyRequirements ==
    (Analyzed /\ args.job_requirements = <<>>) =>
        /\ RatEq(result.match_score, Zero)
        /\ result.missing_skills = <<>>

\* C5 witness: the matcher ran with two candidate skills and no requirement
C5_Witness ==
    /\ Analyzed
    /\ args.job_requirements = <<>>
    /\ Len(engine.skills) = 2
    /\ result.missing_skills = <<>>

\* C6: every result of analyze_skills_match carries total_required and
\* total_matched, with total_matched = |matched_skills|, total_required =
\* |matched_skills| + |missing_skills| = the number of requirements, and
\* match_score = total_matched / total_required when total_required > 0.
C6_CountsConsistent ==
    Analyzed =>
        /\ {"total_required", "total_matched"} \subseteq DOMAIN result
        /\ result.total_matched = Len(result.matched_skills)
        /\ result.total_required = Len(result.matched_skills) + Len(result.missing_skills)
        /\ result.total_required = Len(args.job_requirements)
        /\ result.total_required > 0 =>
               RatEq(result.match_score, Rat(result.total_matched, result.total_required))

\* C7: a requirement that equals some candidate skill after lower-casing and
\* trimming is reported as matched; candidate ["Python"] against requirement
\* ["python"] is fully matched, with match_score 1.
C7_CaseAndWhitespaceInsensitive ==
    Analyzed =>
        /\ \A i \in 1..Len(args.job_requirements) :
               Normalized(args.job_requirements[i]) \in Elements(NormalizedAll(engine.skills))
                   => Normalized(args.job_requirements[i]) \in Elements(result.matched_skills)
        /\ (engine.skills = <<str_Python>> /\ args.job_requirements = <<str_python>>)
               => (RatEq(result.match_score, One) /\ result.missing_skills = <<>>)

\* C7 witness: candidate ["Python"] was matched against requirement ["python"]
C7_Witness ==
    /\ Analyzed
    /\ engine.skills = <<str_Python>>
    /\ args.job_requirements = <<str_python>>
    /\ result.matched_skills = <<str_python>>

\* the candidate holds a and the job requires b, among the normalized skills
\* held and the normalized requirement
HoldsAndRequires(held, a, requirement, b) ==
    /\ requirement = b
    /\ a \in Elements(held)

\* every requirement that pairs with a skill held is among the matched
PairsMatched(held, requirements, matched) ==
    \A pair \in AbbreviationPairs : \A i \in 1..Len(requirements) :
        (\/ HoldsAndRequires(held, pair[2], requirements[i], pair[1])
         \/ HoldsAndRequires(held, pair[1], requirements[i], pair[2]))
            => requirements[i] \in matched

\* C8: for every (full form, abbreviation) pair of the abbreviation table, the
\* requirement is reported as matched when the candidate holds the
\* abbreviation and the job requires the full form, and when the candidate
\* holds the full form and the job requires the abbreviation.
C8_AbbreviationSymmetry ==
    Analyzed =>
        PairsMatched(NormalizedAll(engine.skills), NormalizedAll(args.job_requirements),
                     Elements(result.matched_skills))

\* C8 witness: candidate ["javascript"] was matched against requirement ["JS"]
C8_Witness ==
    /\ Analyzed
    /\ engine.skills = <<str_javascript>>
    /\ args.job_requirements = <<str_JS>>
    /\ result.matched_skills = <<str_js>>
    /\ result.missing_skills = <<>>

\* C9: find_relevant_experience returns at most 3 entries, and their
\* relevance_score values are non-increasing from first to last.
C9_AtMostThreeNonIncreasing ==
    Ranked =>
        /\ Len(result) <= 3
        /\ \A i \in 1..(Len(result) - 1) :
               RatGe(result[i].relevance_score, result[i + 1].relevance_score)

\* the score of the i-th entry of the work history under the call's arguments
InputScore(i) ==
    relevance_score_of(engine.experience[i], args.job_title, args.required_skills)

\* the i-th entry of the work history as it would appear in a result
InputAsRanked(i) == with_relevance_score(engine.experience[i], InputScore(i))

Threshold == Rat(1, 10)

\* the scored entry is among the ranked ones if it scores above the threshold,
\* unless three ranked ones score at least as much, and is not if it does not
KeptByThreshold(scored, ranked) ==
    IF RatGt(scored.relevance_score, Threshold)
    THEN \/ scored \in Elements(ranked)
         \/ /\ Len(ranked) = 3
            /\ \A k \in 1..3 : RatGe(ranked[k].relevance_score, scored.relevance_score)
    ELSE scored \notin Elements(ranked)

\* C9 witness: four entries of the work history are above the threshold, and
\* three come back, the first scoring strictly more than the last
C9_Witness ==
    /\ Ranked
    /\ Len(engine.experience) = 4
    /\ \A i \in 1..4 : RatGt(InputScore(i), Threshold)
    /\ Len(result) = 3
    /\ RatGt(result[1].relevance_score, result[3].relevance_score)

\* C10: every returned entry has a relevance_score strictly greater than 0.1;
\* an entry scoring 0.1 or less, exactly 0.1 included, is not returned; and an
\* entry scoring above 0.1 is returned unless three entries scoring at least
\* as much are.
C10_StrictThreshold ==
    Ranked =>
        /\ \A k \in 1..Len(result) : RatGt(result[k].relevance_score, Threshold)
        /\ \A i \in 1..Len(engine.experience) :
               KeptByThreshold(InputAsRanked(i), result)

\* C10 witness: an entry scoring exactly 0.1 (title Jaccard 1/4, no skill hit)
\* was left out of a result that holds another entry
C10_Witness ==
    /\ Ranked
    /\ result /= <<>>
    /\ \E i \in 1..Len(engine.experience) :
           /\ RatEq(InputScore(i), Threshold)
           /\ RatEq(calculate_title_similarity(args.job_title, engine.experience[i].title),
                    Rat(1, 4))
           /\ InputAsRanked(i) \notin Elements(result)

\* the scores of the work history's entries under the call's arguments
InputScores == [i \in 1..Len(engine.experience) |-> InputScore(i)]

\* the entries above the threshold, given the scores
AboveThreshold(scores) == { i \in DOMAIN scores : RatGt(scores[i], Threshold) }

\* entry i comes before entry j in a stable descending sort by score
RanksBefore(scores, i, j) ==
    \/ RatGt(scores[i], scores[j])
    \/ RatEq(scores[i], scores[j]) /\ i < j

\* the place of entry i among the entries above the threshold
RankOf(scores, i) ==
    1 + Cardinality({ j \in AboveThreshold(scores) : RanksBefore(scores, j, i) })

\* entry is the i-th input entry, field by field, plus its relevance_score
IsInputPlusScore(entry, scores, i) ==
    /\ DOMAIN entry = DOMAIN engine.experience[i] \cup {"relevance_score"}
    /\ \A k \in DOMAIN engine.experience[i] : entry[k] = engine.experience[i][k]
    /\ RatEq(entry["relevance_score"], scores[i])

\* ranked is the first 3 of the stable descending sort of the entries above
\* the threshold
IsStableTopThree(ranked, scores) ==
    /\ Len(ranked) = IF Cardinality(AboveThreshold(scores)) < 3
                     THEN Cardinality(AboveThreshold(scores)) ELSE 3
    /\ \A i \in AboveThreshold(scores) :
           RankOf(scores, i) <= 3 => IsInputPlusScore(ranked[RankOf(scores, i)], scores, i)

\* C11: the result of find_relevant_experience is the first 3 of the entries
\* above the threshold after a stable descending sort by relevance_score:
\* equal scores keep their order in cv.experience, and each returned entry is
\* an input entry plus its relevance_score.
C11_StableTopThree == Ranked => IsStableTopThree(result, InputScores)

\* C11 witness: the untitled entry and the sample entry score the same, and
\* come back in the order of the work history, the untitled one first
C11_Witness ==
    /\ Ranked
    /\ engine.experience = <<exp_untitled, sample_experience>>
    /\ RatEq(InputScore(1), InputScore(2))
    /\ Len(result) = 2
    /\ result[1].title = <<>>
    /\ result[2].title = str_Software_Engineer

\* no entry of the engine's work history carries a relevance_score
NoScoreInHistory ==
    \A i \in 1..Len(engine.experience) : "relevance_score" \notin DOMAIN engine.experience[i]

\* C12: generate_personalized_content and the operations it calls never
\* change the caller's CV or job: over every step the engine's cv_data and
\* fields are what they were, no work-history entry gains a relevance_score,
\* and after a generate call the job dict is the one that was passed.
C12_InputsNotMutated ==
    [][/\ engine' = engine
       /\ NoScoreInHistory'
       /\ op' = "generate_personalized_content" => caller_job' = args'.job_analysis]_vars

\* C12 witness: generate_personalized_content returned a ranked entry with its
\* score, for a job without a role_title key, and the CV and the job are as
\* they were passed
C12_Witness ==
    /\ Generated
    /\ raised = "none"
    /\ result.relevant_experience /= <<>>
    /\ "relevance_score" \in DOMAIN result.relevant_experience[1]
    /\ "role_title" \notin DOMAIN args.job_analysis
    /\ caller_job = args.job_analysis
    /\ NoScoreInHistory

\* the call is generate_personalized_content with the job of the call kept
SameCallAsKept ==
    /\ Generated
    /\ previous.op = op
    /\ previous.args = args

\* C13: generate_personalized_content called twice with the same CV and job
\* yields the same outcome: the result depends on the arguments only, not on
\* state an earlier call left in the engine.
C13_SameInputsSameOutput ==
    SameCallAsKept => (previous.raised = raised /\ previous.result = result)

\* C13 witness: the second of two calls with the same job on a CV of three
\* entries returned, one entry ranked and "Proven track record" among the
\* strengths, as in the first
C13_Witness ==
    /\ SameCallAsKept
    /\ raised = "none"
    /\ Len(engine.experience) = 3
    /\ Len(result.relevant_experience) = 1
    /\ str_strength_track_record \in Elements(result.strengths_to_highlight)
    /\ previous.result = result

\* the call is generate_personalized_content on the sample CV for the sample job
SampleCall ==
    /\ Generated
    /\ engine.cv_data = sample_cv_data
    /\ args.job_analysis = sample_job

\* the talking point names each of the skills
NamesAll(point, skills) == \A i \in 1..Len(skills) : contains(skills[i], point)

\* C14: for the sample CV (skills Python, React, JavaScript, AWS, Docker; the
\* TechCorp "Software Engineer" entry) and the sample job (requirements Python,
\* React, AWS, communication skills; "Software Engineer" at Innovation Inc,
\* technology), generate_personalized_content yields match_score 0.75 with
\* python, react, aws matched and "communication skills" missing, exactly one
\* ranked entry scoring above 0.1, a talking point naming the matched skills,
\* and no "Proven track record" strength.
C14_SampleScenario ==
    SampleCall =>
        /\ raised = "none"
        /\ RatEq(result.skills_match.match_score, Rat(3, 4))
        /\ result.skills_match.matched_skills = <<str_python, str_react, str_aws>>
        /\ result.skills_match.missing_skills = <<str_communication_skills>>
        /\ Len(result.relevant_experience) = 1
        /\ RatGt(result.relevant_experience[1].relevance_score, Threshold)
        /\ \E i \in 1..Len(result.talking_points) :
              NamesAll(result.talking_points[i], <<str_python, str_react, str_aws>>)
        /\ str_strength_track_record \notin Elements(result.strengths_to_highlight)

\* C14 witness: the sample call returned its four talking points, the ranked
\* entry being the TechCorp one
C14_Witness ==
    /\ SampleCall
    /\ raised = "none"
    /\ Len(result.talking_points) = 4
    /\ result.relevant_experience[1].company = str_TechCorp
    /\ engine.skills = sample_skills

\* the call read a CV field that is not a list
MalformedCall ==
    \/ Analyzed /\ engine.skills.shape /= "list"
    \/ Ranked /\ engine.experience.shape /= "list"

\* C15: a call on a CV whose skills or experience is not a sequence (a
\* mapping, a string, a number) fails with an error that reaches the caller;
\* the value is never taken for an empty or a valid one.
C15_MalformedInputFails == MalformedCall => raised /= "none"

\* invocation i has returned or raised
Done(i) == calls[i].pc = "done"

\* what invocation i would return on the engine with no other invocation
Alone(i) == generate_personalized_content(engine, calls[i].job_analysis)

\* the result of invocation i is the one it returns alone
SameAsAlone(i) ==
    /\ calls[i].raised = Alone(i).raised
    /\ calls[i].result = Alone(i).value

\* the result of invocation i shares no mutable object with the CV or with
\* the result of another invocation
SharesNothing(i) ==
    /\ calls[i].objects \cap engine_objects = {}
    /\ \A j \in Invocations \ {i} : Done(j) => calls[i].objects \cap calls[j].objects = {}

\* C16: invocations of generate_personalized_content interleaved on one engine
\* need no synchronisation: each returns what it returns alone, and its
\* result is freshly allocated, sharing no mutable structure with the inputs
\* or with the result of another invocation.
C16_ConcurrentInvocationsIndependent ==
    \A i \in Invocations : Done(i) => (SameAsAlone(i) /\ SharesNothing(i))

\* the two normalized skills are a listed pair, in either order
ListedPair(a, b) == <<a, b>> \in AbbreviationPairs \/ <<b, a>> \in AbbreviationPairs

\* one of the two normalized skills is a substring of the other
SubstringPair(a, b) == contains(a, b) \/ contains(b, a)

\* the similarity of two normalized skills as the specification grades it
Similarity(a, b) ==
    IF a = b THEN Rat(1, 1)
    ELSE IF ListedPair(a, b) THEN Rat(9, 10)
    ELSE IF SubstringPair(a, b) THEN Rat(8, 10)
    ELSE Rat(0, 1)

\* the normalized requirement is met by some normalized candidate skill
MetBySome(requirement, skills) ==
    \E i \in 1..Len(skills) :
        \/ RatGe(Similarity(requirement, Normalized(skills[i])), Rat(7, 10))
        \/ SubstringPair(requirement, Normalized(skills[i]))

\* the normalized requirements that some candidate skill meets, each once, in
\* the order of the requirements
MetRequirements(requirements, skills) ==
    LET Met(requirement) == MetBySome(requirement, skills)
    IN  SelectSeq(NormalizedAll(requirements), Met)

\* C17: a requirement is reported as matched if and only if some normalized
\* candidate skill has similarity >= 0.7 with it, is a substring of it or
\* contains it; it is in matched_skills once, however many skills match it.
C17_MatchedIffSomeSkillMeets ==
    Analyzed => result.matched_skills = MetRequirements(args.job_requirements, engine.skills)

\* C17 witness: both candidate skills meet the one requirement, which is
\* reported once
C17_Witness ==
    /\ Analyzed
    /\ engine.skills = <<str_Python, str_python_padded>>
    /\ args.job_requirements = <<str_Python>>
    /\ result.matched_skills = <<str_python>>
    /\ result.total_matched = 1

\* C18: _calculate_similarity returns 0.9 for every pair of the abbreviation
\* table in either argument order, 1.0 for equal strings, 0.8 for a substring
\* pair, and 0.0 otherwise.
C18_SimilarityGrades ==
    op = "_calculate_similarity" => RatEq(result, Similarity(args.skill1, args.skill2))

\* the words of a title: lower-cased, split at whitespace
Words(title) == split_set(lower(title))

\* Jaccard similarity of the word sets of two titles, 0 for an empty title
TitleSimilarity(target_title, entry_title) ==
    IF target_title = <<>> \/ entry_title = <<>> THEN Zero
    ELSE IF Words(target_title) = {} \/ Words(entry_title) = {} THEN Zero
    ELSE Rat(Cardinality(Words(target_title) \cap Words(entry_title)),
             Cardinality(Words(target_title) \cup Words(entry_title)))

\* the skill density of an entry as the ranker counts it
DensityAsCounted(entry, required_skills) ==
    IF required_skills = <<>> \/ Get(entry, "description", <<>>) = <<>> THEN Zero
    ELSE Rat(count_skills_in_text(required_skills, entry.description), Len(required_skills))

\* 0.4 * title_similarity + 0.6 * skill_density
Weighted(title_similarity, skill_density) ==
    RatAdd(RatMul(Rat(4, 10), title_similarity), RatMul(Rat(6, 10), skill_density))

\* the relevance_score the specification gives the entry
WeightedScore(entry, target_title, required_skills) ==
    Weighted(TitleSimilarity(target_title, Get(entry, "title", <<>>)),
             DensityAsCounted(entry, required_skills))

\* the weighted scores of the work history's entries under the call's arguments
WeightedScores ==
    [i \in 1..Len(engine.experience) |->
        WeightedScore(engine.experience[i], args.job_title, args.required_skills)]

\* C19: the relevance_score of every entry is 0.4 * title_similarity + 0.6 *
\* skill_density, title_similarity being the Jaccard similarity of the
\* lower-cased, whitespace-split word sets of the target title and the entry's
\* title, 0 when either title is empty or missing: every returned entry
\* carries that score, and the entries are kept or dropped by it.
C19_WeightedScore ==
    Ranked =>
        /\ \A k \in 1..Len(result) :
               RatEq(result[k].relevance_score,
                     WeightedScore(result[k], args.job_title, args.required_skills))
        /\ \A i \in 1..Len(engine.experience) :
               \/ Len(result) = 3
               \/ RatGt(WeightedScores[i], Threshold)
                      <=> \E k \in 1..Len(result) :
                              IsInputPlusScore(result[k], WeightedScores, i)

\* C19 witness: the "Software Engineer" entry, ranked for "Senior Engineer"
\* and requirement Python, scores 0.4 * 1/3 + 0.6 * 1 = 11/15
C19_Witness ==
    /\ Ranked
    /\ args.job_title = str_Senior_Engineer
    /\ args.required_skills = <<str_Python>>
    /\ result /= <<>>
    /\ result[1].title = str_Software_Engineer
    /\ RatEq(result[1].relevance_score, Rat(11, 15))

\* the skill density of an entry: the required skills whose normalized form
\* occurs in the lower-cased description, over the number of required skills
SkillDensity(entry, required_skills) ==
    IF required_skills = <<>> \/ Get(entry, "description", <<>>) = <<>> THEN Zero
    ELSE Rat(Cardinality({ i \in 1..Len(required_skills) :
                              contains(Normalized(required_skills[i]),
                                       lower(entry.description)) }),
             Len(required_skills))

\* the relevance_score of the entries with that density
DensityScores ==
    [i \in 1..Len(engine.experience) |->
        Weighted(TitleSimilarity(args.job_title, Get(engine.experience[i], "title", <<>>)),
                 SkillDensity(engine.experience[i], args.required_skills))]

\* C20: the skill density of an entry counts the required skills whose
\* normalized form (lower-cased and trimmed) is a substring of the lower-cased
\* description, over len(required_skills), and is 0 when required_skills or
\* the description is empty; a requirement " Python " is counted when the
\* description contains "python".  Every returned entry carries the score
\* with that density, and the entries are kept or dropped by it.
C20_SkillDensityNormalized ==
    Ranked =>
        \A i \in 1..Len(engine.experience) :
            \/ Len(result) = 3
            \/ RatGt(DensityScores[i], Threshold)
                   <=> \E k \in 1..Len(result) :
                           IsInputPlusScore(result[k], DensityScores, i)

TalkingPointsBuilt == op = "_generate_talking_points"

StartsWith(s, head) == Len(s) >= Len(head) /\ SubSeq(s, 1, Len(head)) = head
EndsWith(s, tail) ==
    Len(s) >= Len(tail) /\ SubSeq(s, Len(s) - Len(tail) + 1, Len(s)) = tail

\* the first three of a list at most
FirstThree(lst) == SubSeq(lst, 1, IF Len(lst) < 3 THEN Len(lst) ELSE 3)

\* the kinds of sentence due for the analysis, the ranking and the job, in
\* the order of the specification
DueSentences(skills_analysis, relevant_experience, job_analysis) ==
    (IF RatGt(skills_analysis.match_score, Rat(1, 2)) THEN <<"skills">> ELSE <<>>)
    \o (IF relevant_experience /= <<>> THEN <<"experience">> ELSE <<>>)
    \o (IF Get(job_analysis, "company", <<>>) /= <<>> THEN <<"company">> ELSE <<>>)
    \o <<"industry">>

\* the sentence is of the kind, for the analysis and the job
IsSentence(sentence, kind, skills_analysis, job_analysis) ==
    CASE kind = "skills" ->
            sentence = str_tp_skills_prefix
                         \o join(str_comma_space, FirstThree(skills_analysis.matched_skills))
                         \o str_tp_skills_suffix
      [] kind = "experience" ->
            StartsWith(sentence, str_tp_role_prefix) /\ EndsWith(sentence, str_tp_role_suffix)
      [] kind = "company" ->
            sentence = str_tp_company_prefix \o job_analysis.company \o str_tp_company_suffix
      [] kind = "industry" -> sentence = IndustrySentence(job_analysis)

\* the talking points are the due sentences, in order
AreDueSentences(points, due, skills_analysis, job_analysis) ==
    /\ Len(points) = Len(due)
    /\ \A k \in 1..Len(due) : IsSentence(points[k], due[k], skills_analysis, job_analysis)

\* C21: talking_points holds, in this order, the skills sentence iff
\* match_score > 0.5 (naming at most 3 matched skills), the experience
\* sentence iff relevant_experience is non-empty, the company sentence iff
\* job.company is non-empty, and always, last, the industry sentence naming
\* job.industry or "technology".
C21_TalkingPointsInOrder ==
    TalkingPointsBuilt =>
        AreDueSentences(result,
                        DueSentences(args.skills_analysis, args.relevant_experience,
                                     args.job_analysis),
                        args.skills_analysis, args.job_analysis)

\* C21 witness: four skills are matched, three are named, and all four
\* sentences are there
C21_Witness ==
    /\ TalkingPointsBuilt
    /\ Len(args.skills_analysis.matched_skills) = 4
    /\ Len(result) = 4
    /\ result[1] = str_tp_skills_prefix
                     \o join(str_comma_space, <<str_python, str_react, str_aws>>)
                     \o str_tp_skills_suffix
    /\ result[4] = IndustrySentence(args.job_analysis)

\* the experience sentence naming the title
ExperienceSentence(title) == str_tp_role_prefix \o title \o str_tp_role_suffix

\* C22: when relevant_experience is non-empty and its first entry has an empty
\* title (it ranked on skill density alone), the experience talking point
\* names the generic title "Software Engineer", not an empty title.
C22_EmptyTitleFallsBack ==
    (/\ TalkingPointsBuilt
     /\ args.relevant_experience /= <<>>
     /\ Get(args.relevant_experience[1], "title", <<>>) = <<>>)
        => /\ ExperienceSentence(str_Software_Engineer) \in Elements(result)
           /\ ExperienceSentence(<<>>) \notin Elements(result)

\* the strengths whose conditions hold for score, matched, the work history
\* and the education of the CV, in the fixed order
DueStrengths(score, matched, experience, education) ==
    (IF RatGt(score, Rat(7, 10)) THEN <<str_strength_alignment>> ELSE <<>>)
    \o (IF Len(matched) > 5 THEN <<str_strength_experience>> ELSE <<>>)
    \o (IF Len(experience) > 2 THEN <<str_strength_track_record>> ELSE <<>>)
    \o (IF education /= <<>> THEN <<str_strength_education>> ELSE <<>>)

\* DueStrengths for the analysis of the engine's skills against the job
DueStrengthsOf(skills_analysis, self) ==
    DueStrengths(skills_analysis.match_score, skills_analysis.matched_skills,
                 self.experience, self.education)

\* C23: strengths_to_highlight is exactly the sub-list, in the fixed order, of
\* the four strengths whose conditions hold, each decided on its own:
\* match_score > 0.7, more than 5 matched skills, more than 2 work-history
\* entries, a non-empty education list; boundary values do not trigger.
C23_StrengthsAreTheDueOnes ==
    Generated =>
        /\ raised = "none"
        /\ result.strengths_to_highlight =
               DueStrengthsOf(analyze_skills_match(engine,
                                 Get(args.job_analysis, "key_requirements", <<>>)),
                              engine)

EmphasisIdentified == op = "_identify_emphasis_areas"

\* some requirement of the job, lower-cased, contains the keyword
Requires(job_analysis, keyword) ==
    \E i \in 1..Len(Get(job_analysis, "key_requirements", <<>>)) :
        contains(keyword, lower(job_analysis.key_requirements[i]))

\* the label is in the list iff the job requires one of the keywords
LabelIffRequired(areas, label, job_analysis, keywords) ==
    (label \in Elements(areas)) <=> (\E keyword \in keywords : Requires(job_analysis, keyword))

\* C24: areas_to_emphasize holds 0 to 3 labels and none twice: the
\* communication label iff the requirements contain "communication", the
\* leadership label iff they contain "leadership" or "management", the agile
\* label iff they contain "agile" or "scrum", whatever the case of the letters.
C24_EmphasisOncePerFamily ==
    EmphasisIdentified =>
        /\ Len(result) <= 3
        /\ Cardinality(Elements(result)) = Len(result)
        /\ Elements(result) \subseteq
               {str_emphasis_communication, str_emphasis_leadership, str_emphasis_agile}
        /\ LabelIffRequired(result, str_emphasis_communication, args.job_analysis,
                            {str_communication})
        /\ LabelIffRequired(result, str_emphasis_leadership, args.job_analysis,
                            {str_leadership, str_management})
        /\ LabelIffRequired(result, str_emphasis_agile, args.job_analysis,
                            {str_agile, str_scrum})

\* both keywords of the leadership family and both of the agile family occur
C24_Witness ==
    /\ EmphasisIdentified
    /\ Get(args.job_analysis, "key_requirements", <<>>) =
           <<str_Team_Leadership, str_Project_Management, str_Scrum>>
    /\ result = <<str_emphasis_leadership, str_emphasis_agile>>

Summarized == op = "get_candidate_summary"

FirstFive(lst) == SubSeq(lst, 1, IF Len(lst) < 5 THEN Len(lst) ELSE 5)

\* the clauses of the summary that are due for the CV, in the fixed order
DueSegments(personal_info, experience, skills, education) ==
    (IF Get(personal_info, "name", <<>>) /= <<>>
     THEN << str_summary_name_prefix \o personal_info.name >> ELSE <<>>)
    \o (IF experience /= <<>>
        THEN << str_summary_exp_prefix \o str_of_int(Len(experience))
                \o str_summary_exp_suffix >>
        ELSE <<>>)
    \o (IF skills /= <<>>
        THEN << str_summary_skills_prefix \o join(str_comma_space, FirstFive(skills)) >>
        ELSE <<>>)
    \o (IF education /= <<>>
        THEN << str_summary_degree_prefix \o education[1].degree >> ELSE <<>>)

\* C25: get_candidate_summary returns the clauses that are due, in the order
\* name, experience count, skills (at most the first five, in CV order),
\* degree of the first education entry, joined by single spaces and followed
\* by one period; a clause is due iff its CV field is non-empty, and a CV with
\* no field gives ".".
C25_SummaryOfPresentSegments ==
    Summarized =>
        /\ result = join(str_space, DueSegments(engine.personal_info, engine.experience,
                                                engine.skills, engine.education))
                    \o str_period
        /\ (/\ Get(engine.personal_info, "name", <<>>) = <<>>
            /\ engine.experience = <<>>
            /\ engine.skills = <<>>
            /\ engine.education = <<>>) => result = str_period

\* a CV with a name, work history, six skills and two education entries
C25_Witness ==
    /\ Summarized
    /\ Get(engine.personal_info, "name", <<>>) = str_John_Doe
    /\ Len(engine.experience) = 2
    /\ Len(engine.skills) = 6
    /\ Len(engine.education) = 2
    /\ contains(str_Docker, result)
    /\ ~contains(str_JS, result)
    /\ contains(str_Master_of_Science, result)
    /\ ~contains(str_Bachelor_of_Science, result)

\* the lists holding the entries of lst in any order
Reorderings(lst) ==
    { [i \in 1..Len(lst) |-> lst[f[i]]] :
        f \in { g \in [1..Len(lst) -> 1..Len(lst)] : \A i, j \in 1..Len(lst) :
                                                        g[i] = g[j] => i = j } }

\* every reordering of the engine's skill list gives the analysis found
SameForEveryOrder(self, job_requirements, found) ==
    \A reordered \in Reorderings(self.skills) :
        analyze_skills_match([self EXCEPT !.skills = reordered], job_requirements) = found

\* C26: the result of analyze_skills_match does not depend on the order of the
\* candidate's skill list: every permutation of the list gives the same
\* match_score, matched_skills and missing_skills for the same requirements.
C26_SkillOrderIrrelevant ==
    Analyzed => SameForEveryOrder(engine, args.job_requirements, result)

\* three skills of which only the last meets the requirement
C26_Witness ==
    /\ Analyzed
    /\ engine.skills = <<str_Python, str_Python, str_JS>>
    /\ args.job_requirements = <<str_javascript, str_Docker>>
    /\ result.matched_skills = <<str_javascript>>

\* some skill of the list is empty once lower-cased and stripped
HasBlankSkill(skills) == \E i \in 1..Len(skills) : Normalized(skills[i]) = <<>>

\* C27: when the candidate's skill list holds a skill that normalizes to the
\* empty string, every requirement of a non-empty requirement list is matched:
\* match_score is 1 and missing_skills is empty, whatever the other skills are.
C27_BlankSkillMatchesAll ==
    (Analyzed /\ HasBlankSkill(engine.skills) /\ args.job_requirements /= <<>>) =>
        /\ RatEq(result.match_score, One)
        /\ result.missing_skills = <<>>
        /\ Len(result.matched_skills) = Len(args.job_requirements)

\* a blank skill beside one that meets neither requirement
C27_Witness ==
    /\ Analyzed
    /\ engine.skills = <<str_Python, str_blank>>
    /\ args.job_requirements = <<str_Docker, str_javascript>>
    /\ RatEq(result.match_score, One)

\* the items of a dict object as a reader finds them
Items(dict) == IF dict.is_PERSONAL_INFO THEN PERSONAL_INFO ELSE dict.items

\* update_personal_info is called in this step
IsUpdate == op = "idle" /\ op' = "update_personal_info"

\* no key but the given one has another value after the step
OnlyChanges(key) ==
    \A k \in DOMAIN PERSONAL_INFO \ {key} : PERSONAL_INFO'[k] = PERSONAL_INFO[k]

\* C28: over any sequence of update_personal_info calls the key set of
\* PERSONAL_INFO stays the same: a call with a key the dict lacks returns
\* False and leaves the dict as it was, a call with a key it has returns True
\* and changes the value of that key only; and a dict got from
\* get_personal_info earlier keeps its items through later updates.
C28_KeySetNeverChanges ==
    [][/\ DOMAIN PERSONAL_INFO' = DOMAIN PERSONAL_INFO
       /\ IsUpdate =>
            IF args'.key \in DOMAIN PERSONAL_INFO
            THEN result' = TRUE /\ OnlyChanges(args'.key)
            ELSE result' = FALSE /\ PERSONAL_INFO' = PERSONAL_INFO
       /\ \A i \in 1..Len(copies) : Items(copies[i])' = Items(copies[i])]_vars

\* an update of a key the dict has, after the caller got a copy of the dict
C28_Witness ==
    /\ op = "update_personal_info"
    /\ result = TRUE
    /\ args.key = "key_skills"
    /\ PERSONAL_INFO.key_skills = <<str_Python, str_Docker>>
    /\ Len(copies) = 1
    /\ Items(copies[1]).key_skills = PERSONAL_INFO_at_import.key_skills
    /\ DOMAIN PERSONAL_INFO = DOMAIN PERSONAL_INFO_at_import

ParseFailed == op = "parse_cv" /\ result = <<>>

\* the summary of a parser that holds the data
SummaryOf(data) == get_summary([CVParser(str_CV) EXCEPT !.parsed_data = data])

\* C30: get_summary of a CVParser returns "No CV data available" exactly when
\* no earlier parse_cv of the parser gave data; a parse_cv that fails returns
\* the empty dict and leaves parsed_data as it was, so that the summary of the
\* last parse that gave data is reported also after a later failure.
C30_SummaryOfLastSuccessfulParse ==
    /\ ParseFailed => parser.parsed_data = last_parsed
    /\ op = "get_summary" =>
        /\ (result = str_No_CV_data_available) <=> (last_parsed = <<>>)
        /\ last_parsed /= <<>> => result = SummaryOf(last_parsed)

\* a parse gave data with six skills, a later parse failed on another file,
\* and the summary names the first five skills
C30_Witness ==
    /\ op = "get_summary"
    /\ last_parsed /= <<>>
    /\ last_parsed.skills = six_skills
    /\ parser.cv_file = str_CV \o str_slash \o str_resume_docx
    /\ last_parsed.experience = <<>>
    /\ result = str_summary_Name \o str_John_Doe \o str_bar \o str_summary_Skills
                \o join(str_comma_space, SubSeq(six_skills, 1, 5))

MainCalled == pc /= "not run"
AgentStarted == MainCalled /\ run.agent /= "not started"

\* C29: run_agent.main starts the agent only after the Ollama connection
\* check went through without an exception: when the check raises, main
\* returns and the agent is never imported or run; and once the check went
\* through, main has started the agent by the time it returns, whatever the
\* status, the models listed and the outcome of the --test run were.
C29_AgentStartsIffConnectionChecked ==
    MainCalled =>
        /\ AgentStarted => run.connection = "completed"
        /\ run.connection = "raised" => (pc = "returned" /\ ~AgentStarted)
        /\ (pc = "returned" /\ run.connection = "completed") => AgentStarted

\* the tests failed, Ollama answered 500 and lists no deepseek model, and
\* the agent has run all the same
C29_Witness ==
    /\ pc = "returned"
    /\ run.tests = "raised"
    /\ run.status_code = 500
    /\ run.model = "not found"
    /\ run.agent = "returned"

====
